---- MODULE Spec2Model ----
(***************************************************************************)
(* Duty-status timeline engine of eld-be (src/api/views.py,                *)
(* src/project/api/models.py): the trip state machine driven by the        *)
(* create / status-change / complete views, the HOS evaluator              *)
(* (_calculate_warnings), the timeline assembler (_collect_eld_segments)   *)
(* and the day partitioner (_build_eld_logs).                              *)
(*                                                                         *)
(* Time is discrete.  A datetime is an integer instant counted in ticks    *)
(* and None is NoTime.  One tick stands for 6 minutes (a tenth of an hour, *)
(* which is not a binary fraction) in the thresholds of the evaluator      *)
(* (HALF_HOUR = 5) and in the length of a day (ONE_DAY = 240); it is also  *)
(* the resolution of a datetime, so the last instant of a day              *)
(* (23:59:59.999999 in the code) is ONE_DAY - MICROSECOND after its        *)
(* midnight.                                                               *)
(***************************************************************************)
EXTENDS Integers, Sequences, FiniteSets, TLC

(***************************************************************************)
(* Bounds of the model.                                                    *)
(***************************************************************************)
MaxTime == 2
MaxTrips == 2
MaxEvents == 3

Times == 0..MaxTime
Users == {"u1", "u2"}

(***************************************************************************)
(* Trip.STATUS_* and nullable columns (models.py).                         *)
(***************************************************************************)
STATUS_OFF_DUTY == "off_duty"
STATUS_SLEEPER == "sleeper"
STATUS_DRIVING == "driving"
STATUS_ON_DUTY == "on_duty"
STATUS_CHOICES == {STATUS_OFF_DUTY, STATUS_SLEEPER, STATUS_DRIVING, STATUS_ON_DUTY}
NoStatus == "null"
NoTime == -1

(***************************************************************************)
(* Thresholds of _calculate_warnings, in ticks of 6 minutes;               *)
(* cycle_used_hours is a Decimal with 2 places, kept in hundredths of an   *)
(* hour, so one tick of on-duty time is 10 hundredths.                     *)
(***************************************************************************)
TICKS_PER_HOUR == 10
HALF_HOUR == 5
EIGHT_HOURS == 80
TEN_HOURS == 100
ELEVEN_HOURS == 110
FOURTEEN_HOURS == 140
CYCLE_LIMIT == 7000
TICK_HUNDREDTHS == 10
CYCLE_MAX == 7000

WARN_DRIVING == "Driving time exceeds 11-hour limit since last 10-hour rest."
WARN_ON_DUTY == "On-duty window exceeds 14-hour limit since last 10-hour rest."
WARN_BREAK == "30-minute break required after 8 cumulative driving hours."
WARN_CYCLE == "Planned work exceeds 70-hour / 8-day cycle limit."

VARIABLES
    trips,       \* Trip rows, in creation order; the index is the trip id
    events,      \* StatusEvent rows, in creation order
    start_time,  \* history: data["start_time"] of the request that created each trip
    request,     \* the request received and not yet answered, or NoRequest
    response,    \* the outcome of the last request answered
    inflight,    \* overlapping requests that have validated but not yet written
    provider_calls, \* number of calls of _fetch_route made so far
    hos_pc,      \* _calculate_warnings run on its own: "idle", "loop" or "done"
    hos_events,  \* events: the intervals the evaluator walks
    hos_i,       \* number of events the loop has processed
    hos_acc,     \* shift_start, last_break_end and the three accumulators
    hos_cycle,   \* trip.cycle_used_hours read after the loop
    hos_warnings, \* warnings returned
    eld_pc,      \* _build_eld_logs run on its own: "idle", "input" or "built"
    eld_tz,      \* tzinfo
    eld_segments, \* segments
    eld_logs,    \* normalized_logs returned
    clip_pc,     \* the clipping loops run on their own: "idle", "for", "while" or "done"
    clip_i,      \* the number of segments the for loop has taken
    clip_current, \* current of the loop, as wall-clock time
    clip_end,    \* end of the loop, as wall-clock time
    raw_entries, \* the entries of logs_by_date in insertion order
    appended,    \* how many of them were appended for the segment last taken
    query,       \* start_date, end_date and limit a client pages with
    page,        \* the last answer of CompletedEldLogsView
    received,    \* the day logs the client has received, page after page
    pages,       \* history: the requests the client has made since its first
    clock,       \* time.time(), in seconds
    cache,       \* the Django cache: per key, the value set last and its expiry
    geo,         \* geocode requests between their cache.get and their cache.set
    admitted,    \* history: per cache key, the requests let through
    rejected,    \* history: per cache key, the requests answered 429
    stop_pc,     \* _estimate_stops run on its own: "idle", "enter", "fuel",
                 \* "break", "rest" or "done"
    driving_duration_hours, \* in hundredths of an hour
    distance_miles,
    index,       \* index of the fuel-stop loop
    break_hour,  \* in hundredths of an hour
    stops        \* the stops appended so far; after "done" the list returned

tripVars == <<trips, events, start_time, request, response, inflight, provider_calls>>
hosVars == <<hos_pc, hos_events, hos_i, hos_acc, hos_cycle, hos_warnings>>
clipVars == <<clip_pc, clip_i, clip_current, clip_end, raw_entries, appended>>
pageVars == <<query, page, received, pages>>
rateVars == <<clock, cache, geo, admitted, rejected>>
eldVars == <<eld_pc, eld_tz, eld_segments, eld_logs, clipVars, pageVars, rateVars>>
stopVars == <<stop_pc, driving_duration_hours, distance_miles, index, break_hour, stops>>
vars == <<tripVars, hosVars, eldVars, stopVars>>

(***************************************************************************)
(* Generic helpers.                                                        *)
(***************************************************************************)
RECURSIVE InsertByStart(_, _)
\* stable insertion: e goes after every element whose start_time is <= its own
InsertByStart(sorted, e) ==
    IF sorted = <<>> THEN <<e>>
    ELSE IF Head(sorted).start_time <= e.start_time
         THEN <<Head(sorted)>> \o InsertByStart(Tail(sorted), e)
         ELSE <<e>> \o sorted

RECURSIVE SortByStart(_)
\* order_by("start_time") / list.sort(key=start_time): ascending by start_time
SortByStart(seq) ==
    IF seq = <<>> THEN <<>>
    ELSE InsertByStart(SortByStart(SubSeq(seq, 1, Len(seq) - 1)), seq[Len(seq)])

Segment(e) == [status |-> e.status, start_time |-> e.start_time, end_time |-> e.end_time]

\* trip.status_events.order_by("start_time"), as segments
StatusEventsOf(evs, tid) ==
    LET mine == SelectSeq(evs, LAMBDA e : e.trip = tid)
    IN  SortByStart([i \in 1..Len(mine) |-> Segment(mine[i])])

\* the closed intervals of a trip in creation order
ClosedOf(evs, tid) ==
    LET mine == SelectSeq(evs, LAMBDA e : e.trip = tid)
    IN  [i \in 1..Len(mine) |-> Segment(mine[i])]

(***************************************************************************)
(* _calculate_warnings: one iteration of the loop over the events, and     *)
(* the checks after the loop.                                              *)
(***************************************************************************)
HosInit ==
    [shift_start |-> NoTime, last_break_end |-> NoTime,
     driving_since_break |-> 0, driving_total |-> 0, on_duty_total |-> 0]

IsRest(status) == status \in {STATUS_OFF_DUTY, STATUS_SLEEPER}

HosReset(acc, event) ==
    [shift_start |-> event.end_time, last_break_end |-> event.end_time,
     driving_since_break |-> 0, driving_total |-> 0, on_duty_total |-> 0]

IsReset_Strict(event) ==
    IsRest(event.status) /\ event.end_time - event.start_time > TEN_HOURS

IsReset_NineHours(event) ==
    IsRest(event.status) /\ event.end_time - event.start_time >= TEN_HOURS - TICKS_PER_HOUR

IsReset(event) ==
    IsRest(event.status) /\ event.end_time - event.start_time >= TEN_HOURS

\* the test of the second branch: a rest of at least 30 minutes
IsBreak_AnyRest(event) == IsRest(event.status)

IsBreak(event) ==
    IsRest(event.status) /\ event.end_time - event.start_time >= HALF_HOUR

HosStep(acc, event) ==
    LET duration == event.end_time - event.start_time
    IN  IF IsReset(event)
        THEN HosReset(acc, event)
        ELSE LET a1 == IF IsBreak(event)
                       THEN [acc EXCEPT !.last_break_end = event.end_time,
                                        !.driving_since_break = 0]
                       ELSE acc
                 a2 == IF a1.shift_start = NoTime
                       THEN [a1 EXCEPT !.shift_start = event.start_time]
                       ELSE a1
                 a3 == IF event.status = STATUS_DRIVING
                       THEN [a2 EXCEPT !.driving_total = @ + duration,
                                       !.driving_since_break = @ + duration]
                       ELSE a2
             IN  IF event.status \in {STATUS_DRIVING, STATUS_ON_DUTY}
                 THEN [a3 EXCEPT !.on_duty_total = @ + duration]
                 ELSE a3

RECURSIVE HosScan(_, _)
HosScan(acc, evs) ==
    IF evs = <<>> THEN acc ELSE HosScan(HosStep(acc, Head(evs)), Tail(evs))

(***************************************************************************)
(* on_duty_total.total_seconds() / 3600 is a binary float: the double      *)
(* nearest to the quotient (53 significant bits, ties to even).            *)
(* Decimal(float) is exact, so the sum with cycle_used_hours compares with *)
(* 70 as the exact sum does, except when the exact sum is 70: then the     *)
(* side the quotient was rounded to decides.                               *)
(***************************************************************************)
MANTISSA_BITS == 53

RECURSIVE BitLength(_)
BitLength(q) == IF q = 0 THEN 0 ELSE 1 + BitLength(q \div 2)

RECURSIVE RoundingOfQuotient(_, _, _, _)
\* binary long division of r / d after `have` significant bits, the last one
\* being lsb: 1 when the nearest double is above the quotient, -1 when it is
\* below, 0 when the quotient is a double
RoundingOfQuotient(r, d, have, lsb) ==
    IF r = 0 THEN 0
    ELSE IF have = MANTISSA_BITS
         THEN IF 2 * r < d THEN -1
              ELSE IF 2 * r > d THEN 1
              ELSE IF lsb = 1 THEN 1 ELSE -1
         ELSE LET bit == IF 2 * r >= d THEN 1 ELSE 0
              IN  RoundingOfQuotient(2 * r - bit * d, d,
                                     IF have = 0 /\ bit = 0 THEN 0 ELSE have + 1, bit)

\* the sign of float(n / d) - n / d, for d > 0
FloatError(n, d) ==
    IF n >= 0
    THEN RoundingOfQuotient(n % d, d, BitLength(n \div d), (n \div d) % 2)
    ELSE 0 - RoundingOfQuotient((0 - n) % d, d, BitLength((0 - n) \div d), ((0 - n) \div d) % 2)

\* cycle_used + on_duty_hours > Decimal("70")
CycleExceeded(cycle_used_hours, on_duty_total) ==
    LET exact == cycle_used_hours + on_duty_total * TICK_HUNDREDTHS
    IN  \/ exact > CYCLE_LIMIT
        \/ exact = CYCLE_LIMIT /\ FloatError(on_duty_total, TICKS_PER_HOUR) > 0

HosWarnings_NoBreakRule(acc, cycle_used_hours) ==
    (IF acc.driving_total > ELEVEN_HOURS THEN <<WARN_DRIVING>> ELSE <<>>)
    \o (IF acc.on_duty_total > FOURTEEN_HOURS THEN <<WARN_ON_DUTY>> ELSE <<>>)
    \o (IF CycleExceeded(cycle_used_hours, acc.on_duty_total)
        THEN <<WARN_CYCLE>> ELSE <<>>)

HosWarnings(acc, cycle_used_hours) ==
    (IF acc.driving_total > ELEVEN_HOURS THEN <<WARN_DRIVING>> ELSE <<>>)
    \o (IF acc.on_duty_total > FOURTEEN_HOURS THEN <<WARN_ON_DUTY>> ELSE <<>>)
    \o (IF acc.driving_since_break > EIGHT_HOURS THEN <<WARN_BREAK>> ELSE <<>>)
    \o (IF CycleExceeded(cycle_used_hours, acc.on_duty_total)
        THEN <<WARN_CYCLE>> ELSE <<>>)

(***************************************************************************)
(* _collect_eld_segments: the closed intervals with end > start, plus the  *)
(* open interval up to completed_at or now, sorted by start_time.          *)
(***************************************************************************)
CollectEldSegments_KeepDegenerate(trip, evs, tid, now) ==
    LET closed == StatusEventsOf(evs, tid)
        segment_end == IF trip.completed_at # NoTime THEN trip.completed_at ELSE now
    IN  IF trip.current_status # NoStatus /\ trip.current_status_started_at # NoTime
           /\ segment_end > trip.current_status_started_at
        THEN SortByStart(Append(closed, [status |-> trip.current_status,
                                         start_time |-> trip.current_status_started_at,
                                         end_time |-> segment_end]))
        ELSE closed

CollectEldSegments(trip, evs, tid, now) ==
    LET closed == SelectSeq(StatusEventsOf(evs, tid), LAMBDA s : s.end_time > s.start_time)
        segment_end == IF trip.completed_at # NoTime THEN trip.completed_at ELSE now
    IN  IF trip.current_status # NoStatus /\ trip.current_status_started_at # NoTime
           /\ segment_end > trip.current_status_started_at
        THEN SortByStart(Append(closed, [status |-> trip.current_status,
                                         start_time |-> trip.current_status_started_at,
                                         end_time |-> segment_end]))
        ELSE closed

\* the interval sequence the evaluator walks: list(trip.status_events.order_by("start_time"))
WarningsInput_Assembled(trip, evs, tid) == CollectEldSegments(trip, evs, tid, MaxTime)

WarningsInput(trip, evs, tid) == StatusEventsOf(evs, tid)

CalculateWarnings(trip, evs, tid) ==
    HosWarnings(HosScan(HosInit, WarningsInput(trip, evs, tid)), trip.cycle_used_hours)

(***************************************************************************)
(* The request handlers, each processed as one step.                       *)
(***************************************************************************)
\* a nullable route column: None is the empty set, a value v is {v}
None == {}
Some(v) == {v}

NoTrip ==
    [user |-> "nobody", cycle_used_hours |-> 0, current_status |-> NoStatus,
     current_status_started_at |-> NoTime, completed_at |-> NoTime,
     route_distance_miles |-> None, route_duration_hours |-> None,
     route_polyline |-> None, route_stops |-> None]

\* the outcome of the last request: HTTP status code and the warnings returned
Slots == {1, 2}
Idle == [pc |-> "idle", op |-> "none", trip_id |-> 0,
         status |-> NoStatus, effective_at |-> NoTime, trip |-> NoTrip]

NoResponse == [code |-> 0, warnings |-> <<>>]

Respond(code, warnings) == [code |-> code, warnings |-> warnings]

\* _get_trip_or_404: Trip.objects.get(id=trip_id, user=user)
TripFound(u, tid) == tid \in 1..Len(trips) /\ trips[tid].user = u

\* _get_active_trip(user) is not None
HasActiveTrip(u) ==
    \E i \in 1..Len(trips) : trips[i].user = u /\ trips[i].completed_at = NoTime

\* _get_latest_completed_at(user), None when the user has no completed trip
LatestCompletedAt(u) ==
    LET done == {trips[i].completed_at :
                    i \in {j \in 1..Len(trips) : trips[j].user = u /\ trips[j].completed_at # NoTime}}
    IN  IF done = {} THEN NoTime ELSE CHOOSE m \in done : \A d \in done : d <= m

\* with transaction.atomic(): a failure inside the block rolls its writes back
TransactionAtomic_NoRollback(before, partial, after, failed) ==
    IF failed THEN partial ELSE after

TransactionAtomic(before, partial, after, failed) ==
    IF failed THEN before ELSE after

\* effective_at <= trip.current_status_started_at: the request is rejected
ValidateStrictlyAfter_OrEqual(effective_at, started_at) == effective_at < started_at

ValidateStrictlyAfter(effective_at, started_at) == effective_at <= started_at

\* What can go wrong with a request besides its values: the serializer rejects
\* the body ("invalid"), or the database fails after the StatusEvent row is
\* created and before the Trip row is saved ("db").
Faults == {"none", "invalid", "db"}

\* the checks of StatusEventCreateView.post / TripCompleteView.post before the
\* write, against the trip as read; ok is the success code of the view
TransitionCode_NoOrderCheck(u, tid, eff, fault, ok) ==
    IF ~(tid \in 1..Len(trips) /\ trips[tid].user = u) THEN 404
    ELSE IF trips[tid].completed_at # NoTime THEN 400
    ELSE IF fault = "invalid" THEN 400
    ELSE IF trips[tid].current_status = NoStatus
            \/ trips[tid].current_status_started_at = NoTime THEN 400
    ELSE ok

TransitionCode(u, tid, eff, fault, ok) ==
    IF ~TripFound(u, tid) THEN 404
    ELSE IF trips[tid].completed_at # NoTime THEN 400
    ELSE IF fault = "invalid" THEN 400
    ELSE IF trips[tid].current_status = NoStatus
            \/ trips[tid].current_status_started_at = NoTime THEN 400
    ELSE IF ValidateStrictlyAfter(eff, trips[tid].current_status_started_at) THEN 400
    ELSE ok

\* StatusEvent.objects.create(trip, status=trip.current_status,
\*                            start_time=trip.current_status_started_at, end_time=effective_at)
ClosedEvent(trip, tid, eff) ==
    [trip |-> tid, status |-> trip.current_status,
     start_time |-> trip.current_status_started_at, end_time |-> eff]

\* trip.save(update_fields=["current_status", "current_status_started_at"])
SaveStatusChange_KeepStart(rows, tid, st, eff) ==
    [rows EXCEPT ![tid].current_status = st]

SaveStatusChange(rows, tid, st, eff) ==
    [rows EXCEPT ![tid].current_status = st, ![tid].current_status_started_at = eff]

\* trip.save(update_fields=["current_status", "current_status_started_at", "completed_at"])
SaveComplete_KeepStatus(rows, tid, eff) ==
    [rows EXCEPT ![tid].current_status_started_at = NoTime,
                 ![tid].completed_at = eff]

SaveComplete_KeepStart(rows, tid, eff) ==
    [rows EXCEPT ![tid].current_status = NoStatus,
                 ![tid].completed_at = eff]

SaveComplete(rows, tid, eff) ==
    [rows EXCEPT ![tid].current_status = NoStatus,
                 ![tid].current_status_started_at = NoTime,
                 ![tid].completed_at = eff]

\* the Trip row written by Trip.objects.create in TripCreateView.post
NewTrip(u, st, s0, cyc, route_summary) ==
    [user |-> u, cycle_used_hours |-> cyc, current_status |-> st,
     current_status_started_at |-> s0, completed_at |-> NoTime,
     route_distance_miles |-> route_summary.distance_miles,
     route_duration_hours |-> route_summary.duration_hours,
     route_polyline |-> route_summary.polyline,
     route_stops |-> route_summary.stops]

(***************************************************************************)
(* _estimate_stops as a function of its arguments, and _build_route_summary *)
(* over the answers of the route provider.  Hours are counted in           *)
(* hundredths (eta_hours is rounded to 2 decimals), miles are whole.       *)
(***************************************************************************)
Min(a, b) == IF a <= b THEN a ELSE b
Max(a, b) == IF a >= b THEN a ELSE b

FUEL_STOP_INTERVAL_MILES == 1000
FUEL_STOP_DURATION_HOURS == 50
BREAK_INTERVAL_HOURS == 800
BREAK_DURATION_HOURS == 50
REST_DURATION_HOURS == 1000
FIRST_REST_HOURS == 1100
CYCLE_REST_HOURS == 7000


Stop(type, eta_hours, duration_hours) ==
    [type |-> type, eta_hours |-> eta_hours, duration_hours |-> duration_hours]

\* round(n / d, 2) in hundredths, for n >= 0 and d > 0: the nearest hundredth;
\* when the quotient is exactly halfway the binary product lies on either side
\* of it (0.01 * 0.5 rounds to 0.01, 69.99 * 0.5 to 34.99), so both are outcomes
Rounded(n, d) ==
    LET lower == n \div d
    IN  IF 2 * (n % d) < d THEN {lower}
        ELSE IF 2 * (n % d) > d THEN {lower + 1}
        ELSE {lower, lower + 1}

\* max(0.0, min(driving_duration_hours, driving_duration_hours * progress_ratio)),
\* as a numerator over distance_miles
EtaNumerator(duration, marker_miles, distance) ==
    Max(0, Min(duration * distance, duration * marker_miles))

\* if marker_miles >= distance_miles: break
MarkerReached_Past(marker_miles, distance) == marker_miles > distance

MarkerReached(marker_miles, distance) == marker_miles >= distance

\* while break_hour <= driving_duration_hours
BreakDue_Strict(hour, duration) == hour < duration

BreakDue(hour, duration) == hour <= duration

\* the key of stops.sort: (eta_hours, type), types compared as strings
TypeRank(type) == IF type = "break" THEN 1 ELSE IF type = "fuel" THEN 2 ELSE 3

\* the key without the type
StopBefore_EtaOnly(a, b) == a.eta_hours < b.eta_hours

StopBefore(a, b) ==
    \/ a.eta_hours < b.eta_hours
    \/ a.eta_hours = b.eta_hours /\ TypeRank(a.type) < TypeRank(b.type)

RECURSIVE InsertStop(_, _)
InsertStop(sorted, e) ==
    IF sorted = <<>> THEN <<e>>
    ELSE IF StopBefore(e, Head(sorted)) THEN <<e>> \o sorted
         ELSE <<Head(sorted)>> \o InsertStop(Tail(sorted), e)

RECURSIVE SortStops(_)
SortStops(seq) ==
    IF seq = <<>> THEN <<>>
    ELSE InsertStop(SortStops(SubSeq(seq, 1, Len(seq) - 1)), seq[Len(seq)])

\* lines 979-998: the rest stops
RestStops(duration) ==
    (IF duration >= FIRST_REST_HOURS
     THEN <<Stop("rest", FIRST_REST_HOURS, REST_DURATION_HOURS)>> ELSE <<>>)
    \o (IF duration >= CYCLE_REST_HOURS
        THEN <<Stop("rest", CYCLE_REST_HOURS, REST_DURATION_HOURS)>> ELSE <<>>)

\* lines 951-964: the fuel stops from marker number idx on, one list per way
\* the eta_hours can round
RECURSIVE FuelStops(_, _, _)
FuelStops(duration, distance, idx) ==
    IF \/ idx > distance \div FUEL_STOP_INTERVAL_MILES
       \/ MarkerReached(idx * FUEL_STOP_INTERVAL_MILES, distance)
    THEN {<<>>}
    ELSE {<<Stop("fuel", eta_hours, FUEL_STOP_DURATION_HOURS)>> \o rest :
            eta_hours \in Rounded(EtaNumerator(duration, idx * FUEL_STOP_INTERVAL_MILES,
                                                distance), distance),
            rest \in FuelStops(duration, distance, idx + 1)}

\* lines 966-976: the break stops from hour on
RECURSIVE BreakStops(_, _)
BreakStops(duration, hour) ==
    IF BreakDue(hour, duration)
    THEN <<Stop("break", hour, BREAK_DURATION_HOURS)>>
         \o BreakStops(duration, hour + BREAK_INTERVAL_HOURS)
    ELSE <<>>

\* the lists _estimate_stops can return
EstimateStops(duration, distance) ==
    IF duration <= 0 THEN {<<>>}
    ELSE {SortStops(fuel \o BreakStops(duration, BREAK_INTERVAL_HOURS) \o RestStops(duration)) :
            fuel \in (IF distance > 0 THEN FuelStops(duration, distance, 1) ELSE {<<>>})}

PICKUP_DROPOFF_BUFFER_HOURS == 100

\* the value held by a nullable that is not None
TheValue(nullable) == CHOOSE v \in nullable : TRUE

\* round(Decimal, 2): the quotient (whole * d + n) / d to the nearest integer,
\* halfway cases to the even one
RoundHalfEven(whole, n, d) ==
    LET lower == whole + n \div d
    IN  IF 2 * (n % d) < d THEN lower
        ELSE IF 2 * (n % d) > d THEN lower + 1
        ELSE IF lower % 2 = 0 THEN lower ELSE lower + 1

\* round(Decimal(str(distance_meters)) / Decimal("1609.344"), 2) in hundredths
\* of a mile: meters * 100000 / 1609344 = meters * 3125 / 50292
MilesHundredths(meters) ==
    RoundHalfEven((meters \div 50292) * 3125, (meters % 50292) * 3125, 50292)

\* round(duration_seconds / 3600 + PICKUP_DROPOFF_BUFFER_HOURS, 2) in hundredths
\* of an hour: seconds * 100 / 3600 = seconds / 36
PlannedHoursHundredths(seconds) ==
    RoundHalfEven(PICKUP_DROPOFF_BUFFER_HOURS, seconds, 36)

\* what _fetch_route does when it is called: it raises (no API key, an HTTP or
\* URL error, a body that is not the expected JSON), returns None (no features,
\* no usable coordinates), or returns a route whose summary may lack a number.
\* The routes are of whole miles and whole hundredths of an hour.
ROUTE_OK == "route"
RouteOutcomes ==
    {ROUTE_OK, "raises", "no_route", "non_numeric_distance", "non_numeric_duration"}

FetchRoute(outcome) ==
    LET answer(distance, duration) ==
            [raised |-> FALSE,
             route |-> Some([distance_meters |-> distance, duration_seconds |-> duration,
                             polyline |-> "polyline"])]
    IN  IF outcome = "raises" THEN [raised |-> TRUE, route |-> None]
        ELSE IF outcome = "no_route" THEN [raised |-> FALSE, route |-> None]
        ELSE IF outcome = "non_numeric_distance" THEN answer(None, Some(144000))
        ELSE IF outcome = "non_numeric_duration" THEN answer(Some(4023360), None)
        ELSE answer(Some(4023360), Some(144000))

EmptySummary ==
    [distance_miles |-> None, duration_hours |-> None, polyline |-> None, stops |-> None]

\* the summaries _build_route_summary can return; _estimate_stops is given the
\* hours and the miles before they are rounded
BuildRouteSummary_NoNumericCheck(outcome) ==
    LET fetched == FetchRoute(outcome)
    IN  IF fetched.raised \/ fetched.route = None THEN {EmptySummary}
        ELSE LET route == TheValue(fetched.route)
                 meters == TheValue(route.distance_meters \cup {0})
                 seconds == TheValue(route.duration_seconds \cup {0})
             IN  {[distance_miles |-> Some(MilesHundredths(meters)),
                   duration_hours |-> Some(PlannedHoursHundredths(seconds)),
                   polyline |-> Some(route.polyline),
                   stops |-> Some(planned)] :
                     planned \in EstimateStops(seconds \div 36, MilesHundredths(meters) \div 100)}

BuildRouteSummary(outcome) ==
    LET fetched == FetchRoute(outcome)
    IN  IF fetched.raised THEN {EmptySummary}
        ELSE IF fetched.route = None THEN {EmptySummary}
        ELSE LET route == TheValue(fetched.route)
             IN  IF route.distance_meters = None \/ route.duration_seconds = None
                 THEN {EmptySummary}
                 ELSE LET meters == TheValue(route.distance_meters)
                          seconds == TheValue(route.duration_seconds)
                      IN  {[distance_miles |-> Some(MilesHundredths(meters)),
                            duration_hours |-> Some(PlannedHoursHundredths(seconds)),
                            polyline |-> Some(route.polyline),
                            stops |-> Some(planned)] :
                              planned \in EstimateStops(seconds \div 36,
                                                        MilesHundredths(meters) \div 100)}

(***************************************************************************)
(* A request is received (urls.py routes it to its view) and then handled  *)
(* in one step by the view's post method.                                  *)
(***************************************************************************)
NoRequest ==
    [op |-> "none", user |-> "nobody", trip_id |-> 0, status |-> NoStatus,
     effective_at |-> NoTime, cycle_used_hours |-> 0, fault |-> "none", route |-> "none"]

CycleChoices == {CYCLE_MAX}
RequestStatuses == {STATUS_DRIVING, STATUS_OFF_DUTY}

\* POST trips/: start_status, start_time, cycle_used_hours
ReceiveCreate(u, st, s0, cyc, fault, route) ==
    /\ request = NoRequest
    /\ \A s \in Slots : inflight[s] = Idle
    /\ UNCHANGED <<hosVars, eldVars, stopVars>>
    /\ Len(trips) < MaxTrips
    /\ request' = [op |-> "create", user |-> u, trip_id |-> 0, status |-> st,
                   effective_at |-> s0, cycle_used_hours |-> cyc, fault |-> fault,
                   route |-> route]
    /\ response' = NoResponse
    /\ UNCHANGED <<trips, events, start_time, inflight, provider_calls>>

\* POST trips/<trip_id>/status/: status, effective_at
ReceiveStatus(u, tid, st, eff, fault, route) ==
    /\ request = NoRequest
    /\ \A s \in Slots : inflight[s] = Idle
    /\ UNCHANGED <<hosVars, eldVars, stopVars>>
    /\ Len(events) < MaxEvents
    /\ request' = [op |-> "status", user |-> u, trip_id |-> tid, status |-> st,
                   effective_at |-> eff, cycle_used_hours |-> 0, fault |-> fault,
                   route |-> route]
    /\ response' = NoResponse
    /\ UNCHANGED <<trips, events, start_time, inflight, provider_calls>>

\* POST trips/<trip_id>/complete/: effective_at
ReceiveComplete(u, tid, eff, fault, route) ==
    /\ request = NoRequest
    /\ \A s \in Slots : inflight[s] = Idle
    /\ UNCHANGED <<hosVars, eldVars, stopVars>>
    /\ Len(events) < MaxEvents
    /\ request' = [op |-> "complete", user |-> u, trip_id |-> tid, status |-> NoStatus,
                   effective_at |-> eff, cycle_used_hours |-> 0, fault |-> fault,
                   route |-> route]
    /\ response' = NoResponse
    /\ UNCHANGED <<trips, events, start_time, inflight, provider_calls>>

\* the checks of TripCreateView.post before the route is requested
CreateChecks(u, s0, fault) ==
    IF HasActiveTrip(u) THEN 400
    ELSE IF fault = "invalid" THEN 400
    ELSE IF LatestCompletedAt(u) # NoTime /\ s0 < LatestCompletedAt(u) THEN 400
    ELSE 201

TripCreate ==
    LET u == request.user
        s0 == request.effective_at
        code == CreateChecks(u, s0, request.fault)
    IN  /\ request.op = "create"
        /\ UNCHANGED <<hosVars, eldVars, stopVars>>
        /\ provider_calls' = IF code = 201 THEN provider_calls + 1 ELSE provider_calls
        /\ \E route_summary \in BuildRouteSummary(request.route) :
              trips' = IF code = 201
                       THEN Append(trips, NewTrip(u, request.status, s0,
                                                  request.cycle_used_hours, route_summary))
                       ELSE trips
        /\ start_time' = IF code = 201 THEN Append(start_time, s0) ELSE start_time
        /\ response' = Respond(code, <<>>)
        /\ request' = NoRequest
        /\ UNCHANGED <<events, inflight>>

StatusEventCreate ==
    LET tid == request.trip_id
        eff == request.effective_at
        code == TransitionCode(request.user, tid, eff, request.fault, 201)
    IN  /\ request.op = "status"
        /\ UNCHANGED <<hosVars, eldVars, stopVars>>
        /\ request' = NoRequest
        /\ IF code # 201
           THEN /\ response' = Respond(code, <<>>)
                /\ UNCHANGED <<trips, events, start_time, inflight, provider_calls>>
           ELSE LET before == <<trips, events>>
                    partial == <<trips, Append(events, ClosedEvent(trips[tid], tid, eff))>>
                    after == <<SaveStatusChange(trips, tid, request.status, eff), partial[2]>>
                    db == TransactionAtomic(before, partial, after, request.fault = "db")
                IN  /\ trips' = db[1]
                    /\ events' = db[2]
                    /\ response' =
                           IF request.fault = "db" THEN Respond(500, <<>>)
                           ELSE Respond(201, CalculateWarnings(after[1][tid], after[2], tid))
                    /\ UNCHANGED <<start_time, inflight, provider_calls>>

TripComplete ==
    LET tid == request.trip_id
        eff == request.effective_at
        code == TransitionCode(request.user, tid, eff, request.fault, 200)
    IN  /\ request.op = "complete"
        /\ UNCHANGED <<hosVars, eldVars, stopVars>>
        /\ request' = NoRequest
        /\ IF code # 200
           THEN /\ response' = Respond(code, <<>>)
                /\ UNCHANGED <<trips, events, start_time, inflight, provider_calls>>
           ELSE LET before == <<trips, events>>
                    partial == <<trips, Append(events, ClosedEvent(trips[tid], tid, eff))>>
                    after == <<SaveComplete(trips, tid, eff), partial[2]>>
                    db == TransactionAtomic(before, partial, after, request.fault = "db")
                IN  /\ trips' = db[1]
                    /\ events' = db[2]
                    /\ response' =
                           IF request.fault = "db" THEN Respond(500, <<>>)
                           ELSE Respond(200, CalculateWarnings(after[1][tid], after[2], tid))
                    /\ UNCHANGED <<start_time, inflight, provider_calls>>

(***************************************************************************)
(* The views that read one trip: TripSummaryView, TripRouteView and        *)
(* EldLogsView.  Each looks the trip up for its caller first.  The bodies  *)
(* of their answers are not part of the state; the route view writes the   *)
(* route columns of a trip that lacks them when the provider answers.      *)
(***************************************************************************)
ReadOps == {"summary", "route", "eld"}

\* GET trips/<trip_id>/, trips/<trip_id>/route/, trips/<trip_id>/eld-logs/
ReceiveRead(op, u, tid, route) ==
    /\ request = NoRequest
    /\ \A s \in Slots : inflight[s] = Idle
    /\ UNCHANGED <<hosVars, eldVars, stopVars>>
    /\ request' = [op |-> op, user |-> u, trip_id |-> tid, status |-> NoStatus,
                   effective_at |-> NoTime, cycle_used_hours |-> 0, fault |-> "none",
                   route |-> route]
    /\ response' = NoResponse
    /\ UNCHANGED <<trips, events, start_time, inflight, provider_calls>>

\* the status code of a view that only looks the trip up
LookupCode_AnyUser(u, tid) == IF tid \in 1..Len(trips) THEN 200 ELSE 404

LookupCode(u, tid) == IF TripFound(u, tid) THEN 200 ELSE 404

TripSummary ==
    /\ request.op = "summary"
    /\ response' = Respond(LookupCode(request.user, request.trip_id), <<>>)
    /\ request' = NoRequest
    /\ UNCHANGED <<trips, events, start_time, inflight, provider_calls>>
    /\ UNCHANGED <<hosVars, eldVars, stopVars>>

\* the route columns after trip.save(update_fields=[...])
SaveRoute(rows, tid, refreshed_route) ==
    [rows EXCEPT ![tid] = [@ EXCEPT !.route_distance_miles = refreshed_route.distance_miles,
                                    !.route_duration_hours = refreshed_route.duration_hours,
                                    !.route_polyline = refreshed_route.polyline,
                                    !.route_stops = refreshed_route.stops]]

TripRoute ==
    LET tid == request.trip_id
        code == LookupCode(request.user, tid)
        refresh == /\ code = 200
                   /\ \/ trips[tid].route_polyline = None
                      \/ trips[tid].route_distance_miles = None
                      \/ trips[tid].route_duration_hours = None
    IN  /\ request.op = "route"
        /\ response' = Respond(code, <<>>)
        /\ request' = NoRequest
        /\ IF refresh
           THEN /\ provider_calls' = provider_calls + 1
                /\ \E refreshed_route \in BuildRouteSummary(request.route) :
                      trips' = IF refreshed_route # EmptySummary
                               THEN SaveRoute(trips, tid, refreshed_route)
                               ELSE trips
           ELSE UNCHANGED <<trips, provider_calls>>
        /\ UNCHANGED <<events, start_time, inflight>>
        /\ UNCHANGED <<hosVars, eldVars, stopVars>>

EldLogs ==
    /\ request.op = "eld"
    /\ response' = Respond(LookupCode(request.user, request.trip_id), <<>>)
    /\ request' = NoRequest
    /\ UNCHANGED <<trips, events, start_time, inflight, provider_calls>>
    /\ UNCHANGED <<hosVars, eldVars, stopVars>>

(***************************************************************************)
(* The same two views when requests overlap: each request first reads the  *)
(* trip and validates it (lines 395-416 / 444-465), and later writes from  *)
(* the Trip object it read (lines 418-427 / 467-477).  Nothing locks the   *)
(* row between the two.                                                    *)
(***************************************************************************)
ReadAndValidate(slot, op, u, tid, st, eff) ==
    LET code == TransitionCode(u, tid, eff, "none", 200)
    IN  /\ request = NoRequest
        /\ inflight[slot].pc = "idle"
        /\ UNCHANGED <<hosVars, eldVars, stopVars>>
        /\ IF code # 200
           THEN /\ response' = Respond(code, <<>>)
                /\ UNCHANGED inflight
           ELSE /\ inflight' = [inflight EXCEPT ![slot] =
                        [pc |-> "validated", op |-> op, trip_id |-> tid,
                         status |-> IF op = "status" THEN st ELSE NoStatus,
                         effective_at |-> eff, trip |-> trips[tid]]]
                /\ UNCHANGED response
        /\ UNCHANGED <<trips, events, start_time, request, provider_calls>>

WriteAtomic(slot) ==
    LET r == inflight[slot]
        rows == IF r.op = "status"
                THEN SaveStatusChange(trips, r.trip_id, r.status, r.effective_at)
                ELSE SaveComplete(trips, r.trip_id, r.effective_at)
        evs == Append(events, ClosedEvent(r.trip, r.trip_id, r.effective_at))
        obj == IF r.op = "status"
               THEN [r.trip EXCEPT !.current_status = r.status,
                                   !.current_status_started_at = r.effective_at]
               ELSE [r.trip EXCEPT !.current_status = NoStatus,
                                   !.current_status_started_at = NoTime,
                                   !.completed_at = r.effective_at]
    IN  /\ r.pc = "validated"
        /\ UNCHANGED <<hosVars, eldVars, stopVars>>
        /\ Len(events) < MaxEvents
        /\ trips' = rows
        /\ events' = evs
        /\ response' = Respond(IF r.op = "status" THEN 201 ELSE 200,
                               CalculateWarnings(obj, evs, r.trip_id))
        /\ inflight' = [inflight EXCEPT ![slot] = Idle]
        /\ UNCHANGED <<start_time, request, provider_calls>>

(***************************************************************************)
(* TripCreateView.post when requests overlap: each request first makes its *)
(* checks (lines 263-283: _get_active_trip, the serializer, the latest     *)
(* completed_at) and later requests the route and creates the row (lines   *)
(* 285-309).  No lock and no constraint of the table ties the two.         *)
(***************************************************************************)
CheckCreate(slot, u, st, s0, cyc) ==
    LET code == CreateChecks(u, s0, "none")
    IN  /\ request = NoRequest
        /\ inflight[slot].pc = "idle"
        /\ Len(trips) + Cardinality({x \in Slots : inflight[x].pc = "checked"}) < MaxTrips
        /\ UNCHANGED <<hosVars, eldVars, stopVars>>
        /\ IF code # 201
           THEN /\ response' = Respond(code, <<>>)
                /\ UNCHANGED inflight
           ELSE /\ inflight' = [inflight EXCEPT ![slot] =
                        [pc |-> "checked", op |-> "create", trip_id |-> 0, status |-> st,
                         effective_at |-> s0, trip |-> NewTrip(u, st, s0, cyc, EmptySummary)]]
                /\ UNCHANGED response
        /\ UNCHANGED <<trips, events, start_time, request, provider_calls>>

CreateRow(slot) ==
    LET r == inflight[slot]
    IN  /\ r.pc = "checked"
        /\ UNCHANGED <<hosVars, eldVars, stopVars>>
        /\ provider_calls' = provider_calls + 1
        /\ \E route_summary \in BuildRouteSummary(ROUTE_OK) :
              trips' = Append(trips, NewTrip(r.trip.user, r.status, r.effective_at,
                                             r.trip.cycle_used_hours, route_summary))
        /\ start_time' = Append(start_time, r.effective_at)
        /\ response' = Respond(201, <<>>)
        /\ inflight' = [inflight EXCEPT ![slot] = Idle]
        /\ UNCHANGED <<events, request>>

(***************************************************************************)
(* _calculate_warnings run on its own, one loop iteration per step, over   *)
(* histories sorted by start_time: intervals laid end to end from instant  *)
(* 0, among them rows whose end_time is not after their start_time.        *)
(***************************************************************************)
MaxHosEvents == 3
HosWorkDurations == {-5, 0, 1, 5, 40, 65, 100, 120}
HosRestDurations == {1, 5, 99, 100}
HosSpans ==
    ({STATUS_DRIVING, STATUS_ON_DUTY} \X HosWorkDurations)
    \cup ({STATUS_OFF_DUTY, STATUS_SLEEPER} \X HosRestDurations)
HosCycles == {0, 6500, 6990, CYCLE_MAX}

RECURSIVE Contiguous(_, _)
\* the intervals (status, duration) laid end to end from instant `from`; a
\* row with end_time <= start_time does not move the next start back
Contiguous(spans, from) ==
    IF spans = <<>> THEN <<>>
    ELSE <<[status |-> Head(spans)[1], start_time |-> from,
            end_time |-> from + Head(spans)[2]]>>
         \o Contiguous(Tail(spans),
                       IF Head(spans)[2] > 0 THEN from + Head(spans)[2] ELSE from)

HosInputs ==
    {Contiguous(spans, 0) :
        spans \in UNION {[1..n -> HosSpans] : n \in 0..MaxHosEvents}}

HosLoop ==
    /\ hos_pc = "loop"
    /\ hos_i < Len(hos_events)
    /\ hos_acc' = HosStep(hos_acc, hos_events[hos_i + 1])
    /\ hos_i' = hos_i + 1
    /\ UNCHANGED <<hos_pc, hos_events, hos_cycle, hos_warnings>>
    /\ UNCHANGED <<tripVars, eldVars, stopVars>>

HosReturn(cycle_used_hours) ==
    /\ hos_pc = "loop"
    /\ hos_i = Len(hos_events)
    /\ hos_cycle' = cycle_used_hours
    /\ hos_warnings' = HosWarnings(hos_acc, cycle_used_hours)
    /\ hos_pc' = "done"
    /\ UNCHANGED <<hos_events, hos_i, hos_acc>>
    /\ UNCHANGED <<tripVars, eldVars, stopVars>>

(***************************************************************************)
(* _build_eld_logs.  timezone.localtime gives the wall clock of the zone;  *)
(* datetimes of one zone are compared, and min/max taken, by wall clock.   *)
(* A zone is its UTC offset before and after one transition instant.       *)
(***************************************************************************)
ONE_DAY == 240
ONE_HOUR == 10
MICROSECOND == 1
TRANSITION_AT == 20

ZONE_FIXED == [at |-> 0, before |-> 0, after |-> 0]
ZONE_FALL_BACK == [at |-> TRANSITION_AT, before |-> ONE_HOUR, after |-> 0]
ZONE_SPRING_FORWARD == [at |-> TRANSITION_AT, before |-> 0, after |-> ONE_HOUR]
Zones == {ZONE_FIXED, ZONE_FALL_BACK, ZONE_SPRING_FORWARD}

Localtime(tz, t) == t + (IF t < tz.at THEN tz.before ELSE tz.after)

\* current.date(): the calendar day of a wall-clock time
DateOf(wall) == wall \div ONE_DAY
\* .replace(hour=0, minute=0, second=0, microsecond=0)
Midnight(wall) == DateOf(wall) * ONE_DAY

RECURSIVE ClipToDays(_, _, _)
\* the while loop of lines 1040-1058
ClipToDays(current, end, status_value) ==
    IF ~(current < end) THEN <<>>
    ELSE LET next_day_start == Midnight(current + ONE_DAY)
             segment_end == Min(end, next_day_start)
         IN  IF segment_end <= current THEN <<>>
             ELSE <<[date |-> DateOf(current), status |-> status_value,
                     start_time |-> current, end_time |-> segment_end]>>
                  \o ClipToDays(segment_end, end, status_value)

RECURSIVE RawEntries(_, _)
\* the for loop of lines 1033-1058, entries in insertion order
RawEntries(segments, tz) ==
    IF segments = <<>> THEN <<>>
    ELSE LET current == Localtime(tz, Head(segments).start_time)
             end == Localtime(tz, Head(segments).end_time)
         IN  (IF end <= current THEN <<>>
              ELSE ClipToDays(current, end, Head(segments).status))
             \o RawEntries(Tail(segments), tz)

RECURSIVE NormalizeEntries(_, _, _, _)
\* the loop of lines 1071-1093 and the final filler of lines 1095-1102
NormalizeEntries(entries, cursor, day_start, day_end) ==
    IF entries = <<>>
    THEN IF cursor < day_end
         THEN <<[status |-> STATUS_OFF_DUTY, start_time |-> cursor, end_time |-> day_end]>>
         ELSE <<>>
    ELSE LET entry == Head(entries)
             s == Max(day_start, entry.start_time)
             e == Min(day_end, entry.end_time)
         IN  IF e <= s THEN NormalizeEntries(Tail(entries), cursor, day_start, day_end)
             ELSE (IF s > cursor
                   THEN <<[status |-> STATUS_OFF_DUTY, start_time |-> cursor, end_time |-> s]>>
                   ELSE <<>>)
                  \o <<[status |-> entry.status, start_time |-> s, end_time |-> e]>>
                  \o NormalizeEntries(Tail(entries), e, day_start, day_end)

\* one day log, lines 1062-1116
DayLog(date, entries) ==
    LET sorted_entries == SortByStart(entries)
        day_start == Midnight(sorted_entries[1].start_time)
        day_end == day_start + ONE_DAY - MICROSECOND
    IN  [date |-> date,
         entries |-> NormalizeEntries(sorted_entries, day_start, day_start, day_end)]

RECURSIVE LogsForDates(_, _)
\* sorted(logs_by_date.items(), key=date): the remaining dates in ascending order
LogsForDates(dates, raw) ==
    IF dates = {} THEN <<>>
    ELSE LET d == CHOOSE x \in dates : \A y \in dates : x <= y
         IN  <<DayLog(d, SelectSeq(raw, LAMBDA r : r.date = d))>>
             \o LogsForDates(dates \ {d}, raw)

BuildEldLogs(segments, tz) ==
    LET raw == RawEntries(segments, tz)
    IN  LogsForDates({raw[i].date : i \in 1..Len(raw)}, raw)

MaxSegments == 2
EldInstants == {0, 15, 20, 25, 220, 239, 240, 241, 260, 480, 500}
EldStatuses == {STATUS_DRIVING, STATUS_SLEEPER}

\* the caller passes one more interval: sorted by start, not overlapping the
\* ones before it, gaps allowed
EldAddSegment(status, start, end) ==
    /\ eld_pc = "input"
    /\ Len(eld_segments) < MaxSegments
    /\ start < end
    /\ eld_segments # <<>> => eld_segments[Len(eld_segments)].end_time <= start
    /\ eld_segments' = Append(eld_segments,
                              [status |-> status, start_time |-> start, end_time |-> end])
    /\ UNCHANGED <<eld_pc, eld_tz, eld_logs, clipVars, pageVars, rateVars>>
    /\ UNCHANGED <<tripVars, hosVars, stopVars>>

\* the caller passes one more interval that starts no earlier than the last
\* one and before the last one's end: sorted by start, overlapping
EldAddOverlapping(status, start, end) ==
    /\ eld_pc = "input"
    /\ Len(eld_segments) < MaxSegments
    /\ start < end
    /\ eld_segments # <<>>
    /\ eld_segments[Len(eld_segments)].start_time <= start
    /\ start < eld_segments[Len(eld_segments)].end_time
    /\ eld_segments' = Append(eld_segments,
                              [status |-> status, start_time |-> start, end_time |-> end])
    /\ UNCHANGED <<eld_pc, eld_tz, eld_logs, clipVars, pageVars, rateVars>>
    /\ UNCHANGED <<tripVars, hosVars, stopVars>>

EldBuild ==
    /\ eld_pc = "input"
    /\ eld_logs' = BuildEldLogs(eld_segments, eld_tz)
    /\ eld_pc' = "built"
    /\ UNCHANGED <<eld_tz, eld_segments, clipVars, pageVars, rateVars>>
    /\ UNCHANGED <<tripVars, hosVars, stopVars>>

(***************************************************************************)
(* The clipping loops of _build_eld_logs, one iteration per step: the      *)
(* half-open loop of src/api/views.py and the loop of                      *)
(* src/project/api/views.py, whose day ends at 23:59:59.999999.  The       *)
(* smallest step of time stands for the microsecond.                       *)
(***************************************************************************)
MaxRawEntries == 4
ClipInstants == {0, 15, 25, 239, 240, 490}

ClipInputs ==
    UNION {[1..n -> {[status |-> STATUS_DRIVING, start_time |-> a, end_time |-> b] :
                        a \in ClipInstants, b \in ClipInstants}] : n \in 1..MaxSegments}

RawEntry(status_value, start, segment_end) ==
    [date |-> DateOf(start), status |-> status_value,
     start_time |-> start, end_time |-> segment_end]

\* lines 1033-1039: the for loop takes the next segment, and skips it when its
\* end is not after its start
ClipSegment ==
    LET segment == eld_segments[clip_i + 1]
    IN  /\ clip_pc = "for"
        /\ clip_i < Len(eld_segments)
        /\ clip_i' = clip_i + 1
        /\ clip_current' = Localtime(eld_tz, segment.start_time)
        /\ clip_end' = Localtime(eld_tz, segment.end_time)
        /\ appended' = 0
        /\ clip_pc' = IF clip_end' <= clip_current' THEN "for" ELSE "while"
        /\ UNCHANGED <<raw_entries, eld_pc, eld_tz, eld_segments, eld_logs, pageVars, rateVars>>
        /\ UNCHANGED <<tripVars, hosVars, stopVars>>

\* lines 1040-1058: one iteration of the while loop, or its exit
ClipLoop ==
    LET next_day_start == Midnight(clip_current + ONE_DAY)
        segment_end == Min(clip_end, next_day_start)
    IN  /\ clip_pc = "while"
        /\ IF clip_current < clip_end /\ ~(segment_end <= clip_current)
           THEN /\ raw_entries' = Append(raw_entries,
                                         RawEntry(eld_segments[clip_i].status, clip_current,
                                                  segment_end))
                /\ appended' = appended + 1
                /\ clip_current' = segment_end
                /\ UNCHANGED clip_pc
           ELSE /\ clip_pc' = "for"
                /\ UNCHANGED <<raw_entries, appended, clip_current>>
        /\ UNCHANGED <<clip_i, clip_end, eld_pc, eld_tz, eld_segments, eld_logs, pageVars, rateVars>>
        /\ UNCHANGED <<tripVars, hosVars, stopVars>>

\* the for loop is exhausted
ClipReturn ==
    /\ clip_pc = "for"
    /\ clip_i = Len(eld_segments)
    /\ clip_pc' = "done"
    /\ UNCHANGED <<clip_i, clip_current, clip_end, raw_entries, appended>>
    /\ UNCHANGED <<eld_pc, eld_tz, eld_segments, eld_logs, pageVars, rateVars>>
    /\ UNCHANGED <<tripVars, hosVars, stopVars>>

\* src/project/api/views.py lines 829-840: one iteration of
\* while current.date() <= end.date(), or its exit
InclusiveLoop ==
    LET day_end == Midnight(clip_current) + ONE_DAY - MICROSECOND
        segment_end == Min(clip_end, day_end)
    IN  /\ clip_pc = "while"
        /\ IF DateOf(clip_current) <= DateOf(clip_end)
           THEN /\ Len(raw_entries) < MaxRawEntries
                /\ raw_entries' = Append(raw_entries,
                                         RawEntry(eld_segments[clip_i].status, clip_current,
                                                  segment_end))
                /\ appended' = appended + 1
                /\ clip_current' = segment_end + MICROSECOND
                /\ UNCHANGED clip_pc
           ELSE /\ clip_pc' = "for"
                /\ UNCHANGED <<raw_entries, appended, clip_current>>
        /\ UNCHANGED <<clip_i, clip_end, eld_pc, eld_tz, eld_segments, eld_logs, pageVars, rateVars>>
        /\ UNCHANGED <<tripVars, hosVars, stopVars>>

(***************************************************************************)
(* _estimate_stops, one loop iteration per step.                           *)
(***************************************************************************)
MaxFuelStops == 3
StopDistances ==
    {0, 2500} \cup UNION {{FUEL_STOP_INTERVAL_MILES * k - 1, FUEL_STOP_INTERVAL_MILES * k,
                           FUEL_STOP_INTERVAL_MILES * k + 1} : k \in 1..MaxFuelStops}
StopDurations == {-100, 0, 1, 799, 800, 801, 1099, 1100, 1600, 2200, 4000, 6999, 7000, 7200}

\* lines 944-950: the early return, and the entry into the fuel loop
EstimateStopsEnter ==
    /\ stop_pc = "enter"
    /\ stop_pc' = IF driving_duration_hours <= 0 THEN "done"
                  ELSE IF distance_miles > 0 THEN "fuel" ELSE "break"
    /\ index' = 1
    /\ break_hour' = BREAK_INTERVAL_HOURS
    /\ UNCHANGED <<driving_duration_hours, distance_miles, stops>>
    /\ UNCHANGED <<tripVars, hosVars, eldVars>>

\* lines 951-964: one iteration of the fuel loop, or its exit
FuelStopLoop ==
    LET fuel_stop_count == distance_miles \div FUEL_STOP_INTERVAL_MILES
        marker_miles == index * FUEL_STOP_INTERVAL_MILES
    IN  /\ stop_pc = "fuel"
        /\ IF index > fuel_stop_count \/ MarkerReached(marker_miles, distance_miles)
           THEN /\ stop_pc' = "break"
                /\ UNCHANGED <<index, stops>>
           ELSE /\ \E eta_hours \in Rounded(EtaNumerator(driving_duration_hours, marker_miles,
                                                         distance_miles), distance_miles) :
                      stops' = Append(stops, Stop("fuel", eta_hours, FUEL_STOP_DURATION_HOURS))
                /\ index' = index + 1
                /\ UNCHANGED stop_pc
        /\ UNCHANGED <<driving_duration_hours, distance_miles, break_hour>>
        /\ UNCHANGED <<tripVars, hosVars, eldVars>>

\* lines 966-976: one iteration of the break loop, or its exit
BreakLoop ==
    /\ stop_pc = "break"
    /\ IF BreakDue(break_hour, driving_duration_hours)
       THEN /\ stops' = Append(stops, Stop("break", break_hour, BREAK_DURATION_HOURS))
            /\ break_hour' = break_hour + BREAK_INTERVAL_HOURS
            /\ UNCHANGED stop_pc
       ELSE /\ stop_pc' = "rest"
            /\ UNCHANGED <<break_hour, stops>>
    /\ UNCHANGED <<driving_duration_hours, distance_miles, index>>
    /\ UNCHANGED <<tripVars, hosVars, eldVars>>

\* lines 979-1000: the two rest stops, the sort and the return
RestStopsAndReturn ==
    /\ stop_pc = "rest"
    /\ stops' = SortStops(stops \o RestStops(driving_duration_hours))
    /\ stop_pc' = "done"
    /\ UNCHANGED <<driving_duration_hours, distance_miles, index, break_hour>>
    /\ UNCHANGED <<tripVars, hosVars, eldVars>>

(***************************************************************************)
(* EldLogsView.get up to the call of _build_eld_logs: the trip is looked   *)
(* up for its user and its timeline is assembled at the clock reading now. *)
(* The rows it reads are any rows the tables can hold, among them closed   *)
(* intervals with end_time <= start_time and trips whose open-interval     *)
(* columns are set only in part.                                           *)
(***************************************************************************)
MaxStoredEvents == 2
StoredStatuses == {STATUS_OFF_DUTY}

StoredTrips ==
    {[user |-> "u1", cycle_used_hours |-> 0, current_status |-> cs,
      current_status_started_at |-> sa, completed_at |-> ca,
      route_distance_miles |-> None, route_duration_hours |-> None,
      route_polyline |-> None, route_stops |-> None] :
        cs \in {NoStatus, STATUS_DRIVING}, sa \in {NoTime} \cup Times,
        ca \in {NoTime} \cup Times}

StoredEvents ==
    UNION {[1..n -> [trip : {1}, status : StoredStatuses,
                     start_time : Times, end_time : Times]] : n \in 0..MaxStoredEvents}

EldLogsCollect(u, tid, now) ==
    /\ eld_pc = "idle"
    /\ TripFound(u, tid)
    /\ eld_segments' = CollectEldSegments(trips[tid], events, tid, now)
    /\ eld_pc' = "input"
    /\ UNCHANGED <<eld_tz, eld_logs, clipVars, pageVars, rateVars>>
    /\ UNCHANGED <<tripVars, hosVars, stopVars>>

(***************************************************************************)
(* CompletedEldLogsView: the day logs of all completed trips of the        *)
(* caller, newest day first, filtered by date and cut into pages.  A date  *)
(* is a day number; its ISO text is the number in a fixed width of zero-   *)
(* padded digits, and the filter compares texts, as the code does.         *)
(***************************************************************************)
ELD_DEFAULT_LIMIT == 20
ELD_MAX_LIMIT == 100
ELD_MAX_RANGE_DAYS == 30

ISO_WIDTH == 4
\* a text is the sequence of its digits; BadText holds a character that is
\* no digit
BadText == <<-1>>

\* date.isoformat()
IsoFormat(day) == [i \in 1..ISO_WIDTH |-> (day \div (10 ^ (ISO_WIDTH - i))) % 10]

\* date.fromisoformat(text)
FromIsoFormat(text) ==
    text[1] * 1000 + text[2] * 100 + text[3] * 10 + text[4]

\* str < str
RECURSIVE TextLess(_, _)
TextLess(a, b) ==
    IF a = <<>> THEN b # <<>>
    ELSE IF b = <<>> THEN FALSE
    ELSE IF Head(a) # Head(b) THEN Head(a) < Head(b)
    ELSE TextLess(Tail(a), Tail(b))

\* _parse_iso_date(raw_value): None, a date, or ValueError
ParseIsoDate(raw_value) ==
    IF raw_value = None \/ raw_value = Some(<<>>) THEN [error |-> FALSE, value |-> None]
    ELSE IF TheValue(raw_value) = BadText THEN [error |-> TRUE, value |-> None]
    ELSE [error |-> FALSE, value |-> Some(FromIsoFormat(TheValue(raw_value)))]

\* _parse_int_in_range(raw_value, default, minimum, maximum)
RECURSIVE ParseInt(_)
ParseInt(text) ==
    IF text = <<>> THEN 0
    ELSE 10 * ParseInt(SubSeq(text, 1, Len(text) - 1)) + text[Len(text)]

ParseIntInRange(raw_value, default, minimum, maximum) ==
    IF raw_value = None THEN default
    ELSE IF TheValue(raw_value) = BadText \/ TheValue(raw_value) = <<>> THEN default
    ELSE Max(minimum, Min(maximum, ParseInt(TheValue(raw_value))))

RECURSIVE Reverse(_)
Reverse(seq) == IF seq = <<>> THEN <<>> ELSE Append(Reverse(Tail(seq)), Head(seq))

CompletedEvents(u) ==
    SelectSeq(events, LAMBDA e : /\ e.trip \in 1..Len(trips)
                                 /\ trips[e.trip].user = u
                                 /\ trips[e.trip].completed_at # NoTime)

\* the segments _get_completed_eld_logs_desc passes to _build_eld_logs
CompletedSegments(u) ==
    LET ordered == SortByStart(CompletedEvents(u))
        kept == SelectSeq(ordered, LAMBDA e : ~(e.end_time <= e.start_time))
    IN  [i \in 1..Len(kept) |-> Segment(kept[i])]

GetCompletedEldLogsDesc(u, tz) == Reverse(BuildEldLogs(CompletedSegments(u), tz))

FilterCompletedLogsByQuery_CursorInclusive(logs, start_date, end_date, cursor) ==
    LET start_text == IF start_date # None THEN Some(IsoFormat(TheValue(start_date))) ELSE None
        end_text == IF end_date # None THEN Some(IsoFormat(TheValue(end_date))) ELSE None
        cursor_text == IF cursor # None THEN Some(IsoFormat(TheValue(cursor))) ELSE None
        Kept(log) ==
            LET log_date == IsoFormat(log.date)
            IN  /\ ~(start_text # None /\ TextLess(log_date, TheValue(start_text)))
                /\ ~(end_text # None /\ TextLess(TheValue(end_text), log_date))
                /\ ~(cursor_text # None /\ TextLess(TheValue(cursor_text), log_date))
    IN  SelectSeq(logs, Kept)

FilterCompletedLogsByQuery(logs, start_date, end_date, cursor) ==
    LET start_text == IF start_date # None THEN Some(IsoFormat(TheValue(start_date))) ELSE None
        end_text == IF end_date # None THEN Some(IsoFormat(TheValue(end_date))) ELSE None
        cursor_text == IF cursor # None THEN Some(IsoFormat(TheValue(cursor))) ELSE None
        Kept(log) ==
            LET log_date == IsoFormat(log.date)
            IN  /\ ~(start_text # None /\ TextLess(log_date, TheValue(start_text)))
                /\ ~(end_text # None /\ TextLess(TheValue(end_text), log_date))
                /\ ~(cursor_text # None /\ ~TextLess(log_date, TheValue(cursor_text)))
    IN  SelectSeq(logs, Kept)

NoQuery == [start_date |-> None, end_date |-> None, limit |-> None]
NoPage == [code |-> 0, logs |-> <<>>, has_more |-> FALSE, next_cursor |-> None]
BadRequest == [code |-> 400, logs |-> <<>>, has_more |-> FALSE, next_cursor |-> None]

\* CompletedEldLogsView.get: the response to the raw query parameters
CompletedEldLogsResponse(u, tz, raw_start, raw_end, raw_cursor, raw_limit) ==
    LET start_date == ParseIsoDate(raw_start)
        end_date == ParseIsoDate(raw_end)
        cursor == ParseIsoDate(raw_cursor)
        both == start_date.value # None /\ end_date.value # None
        limit == ParseIntInRange(raw_limit, ELD_DEFAULT_LIMIT, 1, ELD_MAX_LIMIT)
        logs == GetCompletedEldLogsDesc(u, tz)
        filtered_logs ==
            FilterCompletedLogsByQuery(logs, start_date.value, end_date.value, cursor.value)
        page_logs == SubSeq(filtered_logs, 1, Min(limit, Len(filtered_logs)))
        has_more == Len(filtered_logs) > limit
    IN  IF start_date.error \/ end_date.error \/ cursor.error THEN BadRequest
        ELSE IF both /\ TheValue(end_date.value) < TheValue(start_date.value) THEN BadRequest
        ELSE IF both /\ TheValue(end_date.value) - TheValue(start_date.value)
                            > ELD_MAX_RANGE_DAYS
        THEN BadRequest
        ELSE [code |-> 200, logs |-> page_logs, has_more |-> has_more,
              next_cursor |-> IF has_more /\ page_logs # <<>>
                              THEN Some(IsoFormat(page_logs[Len(page_logs)].date))
                              ELSE None]

\* GET of CompletedEldLogsView with the parameters of raw_query and a cursor;
\* the client keeps the logs of the pages it has asked for since its first
\* request (the one without a cursor)
CompletedEldLogs(u, raw_query, raw_cursor) ==
    /\ request = NoRequest
    /\ \A s \in Slots : inflight[s] = Idle
    /\ page' = CompletedEldLogsResponse(u, eld_tz, raw_query.start_date, raw_query.end_date,
                                        raw_cursor, raw_query.limit)
    /\ query' = raw_query
    /\ received' = IF raw_cursor = None THEN page'.logs ELSE received \o page'.logs
    /\ pages' = IF raw_cursor = None THEN 1 ELSE pages + 1
    /\ UNCHANGED <<eld_pc, eld_tz, eld_segments, eld_logs, clipVars, rateVars>>
    /\ UNCHANGED <<tripVars, hosVars, stopVars>>

\* the client's first request
FirstPage ==
    /\ page = NoPage
    /\ CompletedEldLogs("u1", query, None)

\* the client's next request: cursor = the previous response's next_cursor
FollowingPage ==
    /\ page.has_more
    /\ CompletedEldLogs("u1", query, page.next_cursor)

\* Stored rows for the pages: completed trips of u1 created one after the
\* other, each with one closed interval; the intervals lie on days 0, 0 to 2,
\* 4 and 35.
PageIntervals == <<[s |-> 0, e |-> 15], [s |-> 230, e |-> 490], [s |-> 965, e |-> 980],
                   [s |-> 8400, e |-> 8410]>>

PageTrip(k) ==
    [user |-> "u1", cycle_used_hours |-> 0, current_status |-> NoStatus,
     current_status_started_at |-> NoTime, completed_at |-> PageIntervals[k].e,
     route_distance_miles |-> None, route_duration_hours |-> None,
     route_polyline |-> None, route_stops |-> None]

PageEvent(tid, k) ==
    [trip |-> tid, status |-> STATUS_DRIVING,
     start_time |-> PageIntervals[k].s, end_time |-> PageIntervals[k].e]

\* lists of at most MaxTrips intervals in increasing order
PageStores ==
    {ks \in UNION {[1..n -> 1..Len(PageIntervals)] : n \in 0..MaxTrips} :
        \A i \in 1..(Len(ks) - 1) : ks[i] < ks[i + 1]}

PageDates == {None, Some(IsoFormat(0)), Some(IsoFormat(1)), Some(IsoFormat(4)),
              Some(IsoFormat(35)), Some(BadText)}
PageLimits == {None, Some(<<0>>), Some(<<1>>), Some(<<2>>), Some(<<2, 0, 0>>), Some(BadText)}
PageQueries == [start_date : PageDates, end_date : PageDates, limit : PageLimits]

(***************************************************************************)
(* _check_geocode_rate_limit: a counter per client IP and second in the    *)
(* Django cache.  The clock counts seconds; a request takes the second it  *)
(* arrives in as its bucket.  When requests overlap, each is two steps:    *)
(* lines 669-672 up to cache.get, and lines 673-682 from there on.         *)
(***************************************************************************)
MaxClock == 2
MaxGeoRequests == 5

GeoIps == {"10.0.0.1", "10.0.0.2"}
\* cache_key = f"geocode-rate:{client_ip}:{second_bucket}"
GeoKeys == GeoIps \X (0..MaxClock)
GEOCODE_LIMIT == 3
CACHE_TIMEOUT == 2

NoEntry == [value |-> None, expires |-> 0]
GeoIdle == [pc |-> "idle", cache_key |-> <<>>, current_count |-> None]

\* cache.get(cache_key): None when the key was never set or has expired
CacheGet(cache_key) ==
    IF cache[cache_key].value # None /\ clock < cache[cache_key].expires
    THEN cache[cache_key].value
    ELSE None

\* cache.set(cache_key, value, timeout=2)
CacheSet(entries, cache_key, value) ==
    [entries EXCEPT ![cache_key] = [value |-> Some(value), expires |-> clock + CACHE_TIMEOUT]]

\* lines 673-682: what the request does with the count it read
RateDecision(current_count) ==
    IF current_count = None THEN [admit |-> TRUE, write |-> Some(1)]
    ELSE IF TheValue(current_count) < GEOCODE_LIMIT
    THEN [admit |-> TRUE, write |-> Some(TheValue(current_count) + 1)]
    ELSE [admit |-> FALSE, write |-> None]

GeoRequests ==
    LET Sum[keys \in SUBSET GeoKeys] ==
            IF keys = {} THEN 0
            ELSE LET key == CHOOSE k \in keys : TRUE
                 IN  admitted[key] + rejected[key] + Sum[keys \ {key}]
    IN  Sum[GeoKeys] + Cardinality({s \in Slots : geo[s].pc # "idle"})

RateOthersUnchanged ==
    /\ UNCHANGED <<eld_pc, eld_tz, eld_segments, eld_logs, clipVars, pageVars>>
    /\ UNCHANGED <<tripVars, hosVars, stopVars>>

\* the outcome of one call: None (the view goes on) or the 429 response
Outcome(cache_key, decision) ==
    /\ cache' = IF decision.write # None
                THEN CacheSet(cache, cache_key, TheValue(decision.write))
                ELSE cache
    /\ admitted' = IF decision.admit
                   THEN [admitted EXCEPT ![cache_key] = @ + 1] ELSE admitted
    /\ rejected' = IF decision.admit
                   THEN rejected ELSE [rejected EXCEPT ![cache_key] = @ + 1]

\* one call of _check_geocode_rate_limit with no other request in between
CheckGeocodeRateLimit(client_ip) ==
    LET cache_key == <<client_ip, clock>>
    IN  /\ \A s \in Slots : geo[s].pc = "idle"
        /\ GeoRequests < MaxGeoRequests
        /\ Outcome(cache_key, RateDecision(CacheGet(cache_key)))
        /\ UNCHANGED <<clock, geo>>
        /\ RateOthersUnchanged

\* lines 669-672: the key is built and the counter read
GeoRead(slot, client_ip) ==
    LET cache_key == <<client_ip, clock>>
    IN  /\ geo[slot].pc = "idle"
        /\ GeoRequests < MaxGeoRequests
        /\ geo' = [geo EXCEPT ![slot] = [pc |-> "read", cache_key |-> cache_key,
                                         current_count |-> CacheGet(cache_key)]]
        /\ UNCHANGED <<clock, cache, admitted, rejected>>
        /\ RateOthersUnchanged

\* lines 673-682: the counter is written back from the value read, or the
\* request is answered 429
GeoDecide(slot) ==
    /\ geo[slot].pc = "read"
    /\ Outcome(geo[slot].cache_key, RateDecision(geo[slot].current_count))
    /\ geo' = [geo EXCEPT ![slot] = GeoIdle]
    /\ UNCHANGED clock
    /\ RateOthersUnchanged

\* a second passes
Tick ==
    /\ clock < MaxClock
    /\ clock' = clock + 1
    /\ UNCHANGED <<cache, geo, admitted, rejected>>
    /\ RateOthersUnchanged

(***************************************************************************)
(* Specifications.                                                         *)
(***************************************************************************)
TripInit ==
    /\ trips = <<>>
    /\ events = <<>>
    /\ start_time = <<>>
    /\ request = NoRequest
    /\ response = NoResponse
    /\ inflight = [s \in Slots |-> Idle]
    /\ provider_calls = 0

HosIdle ==
    /\ hos_pc = "idle"
    /\ hos_events = <<>>
    /\ hos_i = 0
    /\ hos_acc = HosInit
    /\ hos_cycle = 0
    /\ hos_warnings = <<>>

ClipIdle ==
    /\ clip_pc = "idle"
    /\ clip_i = 0
    /\ clip_current = NoTime
    /\ clip_end = NoTime
    /\ raw_entries = <<>>
    /\ appended = 0

PageIdle ==
    /\ query = NoQuery
    /\ page = NoPage
    /\ received = <<>>
    /\ pages = 0

RateIdle ==
    /\ clock = 0
    /\ cache = [key \in GeoKeys |-> NoEntry]
    /\ geo = [s \in Slots |-> GeoIdle]
    /\ admitted = [key \in GeoKeys |-> 0]
    /\ rejected = [key \in GeoKeys |-> 0]

EldIdle ==
    /\ eld_pc = "idle"
    /\ eld_tz = ZONE_FIXED
    /\ eld_segments = <<>>
    /\ eld_logs = <<>>
    /\ ClipIdle
    /\ PageIdle
    /\ RateIdle

StopsIdle ==
    /\ stop_pc = "idle"
    /\ driving_duration_hours = 0
    /\ distance_miles = 0
    /\ index = 0
    /\ break_hour = 0
    /\ stops = <<>>

Init == TripInit /\ HosIdle /\ EldIdle /\ StopsIdle

Next ==
    \/ \E u \in Users, st \in RequestStatuses, s0 \in Times, cyc \in CycleChoices,
          fault \in {"none", "invalid"} : ReceiveCreate(u, st, s0, cyc, fault, ROUTE_OK)
    \/ \E u \in Users, tid \in 1..MaxTrips, st \in RequestStatuses, eff \in Times,
          fault \in Faults : ReceiveStatus(u, tid, st, eff, fault, ROUTE_OK)
    \/ \E u \in Users, tid \in 1..MaxTrips, eff \in Times,
          fault \in Faults : ReceiveComplete(u, tid, eff, fault, ROUTE_OK)
    \/ TripCreate
    \/ StatusEventCreate
    \/ TripComplete

Spec == Init /\ [][Next]_vars

\* Overlapping requests are explored for the requests of one user.
ConcUsers == {"u1"}

NextConc ==
    \/ \E u \in ConcUsers, st \in RequestStatuses, s0 \in Times, cyc \in CycleChoices :
          ReceiveCreate(u, st, s0, cyc, "none", ROUTE_OK)
    \/ TripCreate
    \/ \E slot \in Slots, op \in {"status", "complete"}, u \in ConcUsers, tid \in 1..MaxTrips,
          st \in RequestStatuses, eff \in Times : ReadAndValidate(slot, op, u, tid, st, eff)
    \/ \E slot \in Slots : WriteAtomic(slot)

SpecConc == Init /\ [][NextConc]_vars

\* The requests of one user, with the route provider in any of its conditions
\* while each request is handled.
NextRoute ==
    \/ \E u \in ConcUsers, st \in RequestStatuses, s0 \in Times, cyc \in CycleChoices,
          route \in RouteOutcomes : ReceiveCreate(u, st, s0, cyc, "none", route)
    \/ \E u \in ConcUsers, tid \in 1..MaxTrips, st \in RequestStatuses, eff \in Times,
          route \in RouteOutcomes : ReceiveStatus(u, tid, st, eff, "none", route)
    \/ \E u \in ConcUsers, tid \in 1..MaxTrips, eff \in Times,
          route \in RouteOutcomes : ReceiveComplete(u, tid, eff, "none", route)
    \/ TripCreate
    \/ StatusEventCreate
    \/ TripComplete

SpecRoute == Init /\ [][NextRoute]_vars

\* The requests of two users that name a trip, the reading ones included.
\* Trips are created without a route, and the route view then obtains it.
\* the instants the requests of the two users carry
IsolationInstants == {0, 1, 2}

NextIsolation ==
    \/ \E u \in Users, s0 \in IsolationInstants, cyc \in CycleChoices :
          ReceiveCreate(u, STATUS_OFF_DUTY, s0, cyc, "none", "no_route")
    \/ \E u \in Users, tid \in 1..MaxTrips, eff \in IsolationInstants, fault \in {"none", "invalid"} :
          ReceiveStatus(u, tid, STATUS_DRIVING, eff, fault, ROUTE_OK)
    \/ \E u \in Users, tid \in 1..MaxTrips, eff \in IsolationInstants :
          ReceiveComplete(u, tid, eff, "none", ROUTE_OK)
    \/ \E op \in ReadOps, u \in Users, tid \in 1..MaxTrips :
          ReceiveRead(op, u, tid, ROUTE_OK)
    \/ TripCreate
    \/ StatusEventCreate
    \/ TripComplete
    \/ TripSummary
    \/ TripRoute
    \/ EldLogs

SpecIsolation == Init /\ [][NextIsolation]_vars

\* One trip of one user whose status changes at instants that make long
\* drives and rests of 9.9 h, 0.1 h, 18 and 12 minutes.
SplitInstants == {81, 84, 86, 111, 210, 211}
SplitStatuses == {STATUS_DRIVING, STATUS_OFF_DUTY, STATUS_SLEEPER}

NextSplit ==
    \/ ReceiveCreate("u1", STATUS_DRIVING, 0, 0, "none", ROUTE_OK)
    \/ \E st \in SplitStatuses, eff \in SplitInstants :
          ReceiveStatus("u1", 1, st, eff, "none", ROUTE_OK)
    \/ TripCreate
    \/ StatusEventCreate

SpecSplit == Init /\ [][NextSplit]_vars

\* Trip creations and completions of two users, the creations overlapping.
NextConcCreate ==
    \/ \E slot \in Slots, u \in Users, st \in RequestStatuses, s0 \in Times,
          cyc \in CycleChoices : CheckCreate(slot, u, st, s0, cyc)
    \/ \E slot \in Slots : CreateRow(slot)
    \/ \E u \in Users, tid \in 1..MaxTrips, eff \in Times :
          ReceiveComplete(u, tid, eff, "none", ROUTE_OK)
    \/ TripComplete

SpecConcCreate == Init /\ [][NextConcCreate]_vars

InitHos ==
    /\ TripInit
    /\ EldIdle
    /\ StopsIdle
    /\ hos_pc = "loop"
    /\ hos_events \in HosInputs
    /\ hos_i = 0
    /\ hos_acc = HosInit
    /\ hos_cycle = 0
    /\ hos_warnings = <<>>

NextHos ==
    \/ HosLoop
    \/ \E cycle_used_hours \in HosCycles : HosReturn(cycle_used_hours)

SpecHos == InitHos /\ [][NextHos]_vars

InitEld ==
    /\ TripInit
    /\ HosIdle
    /\ StopsIdle
    /\ eld_pc = "input"
    /\ eld_tz \in Zones
    /\ eld_segments = <<>>
    /\ eld_logs = <<>>
    /\ ClipIdle
    /\ PageIdle
    /\ RateIdle

NextEld ==
    \/ \E status \in EldStatuses, start \in EldInstants, end \in EldInstants :
          EldAddSegment(status, start, end)
    \/ EldBuild

SpecEld == InitEld /\ [][NextEld]_vars

\* One user whose trips start, change status and complete at instants on both
\* sides of the zone's transition, and who reads the logs of the completed trips.
CompletedInstants == {0, 15, 20, 25, 241}

InitCompleted ==
    /\ TripInit
    /\ HosIdle
    /\ StopsIdle
    /\ eld_pc = "idle"
    /\ eld_tz \in Zones
    /\ eld_segments = <<>>
    /\ eld_logs = <<>>
    /\ ClipIdle
    /\ PageIdle
    /\ RateIdle

NextCompleted ==
    \/ \E st \in RequestStatuses, s0 \in CompletedInstants :
          ReceiveCreate("u1", st, s0, 0, "none", "no_route")
    \/ \E tid \in 1..MaxTrips, eff \in CompletedInstants :
          ReceiveStatus("u1", tid, STATUS_DRIVING, eff, "none", ROUTE_OK)
    \/ \E tid \in 1..MaxTrips, eff \in CompletedInstants :
          ReceiveComplete("u1", tid, eff, "none", ROUTE_OK)
    \/ TripCreate
    \/ StatusEventCreate
    \/ TripComplete
    \/ CompletedEldLogs("u1", NoQuery, None)

SpecCompleted == InitCompleted /\ [][NextCompleted]_vars

\* A client pages through the logs of stored completed trips.
InitPages ==
    /\ HosIdle
    /\ StopsIdle
    /\ \E ks \in PageStores :
          /\ trips = [i \in 1..Len(ks) |-> PageTrip(ks[i])]
          /\ events = [i \in 1..Len(ks) |-> PageEvent(i, ks[i])]
          /\ start_time = [i \in 1..Len(ks) |-> PageIntervals[ks[i]].s]
    /\ request = NoRequest
    /\ response = NoResponse
    /\ inflight = [s \in Slots |-> Idle]
    /\ provider_calls = 0
    /\ eld_pc = "idle"
    /\ eld_tz \in Zones
    /\ eld_segments = <<>>
    /\ eld_logs = <<>>
    /\ ClipIdle
    /\ query \in PageQueries
    /\ page = NoPage
    /\ received = <<>>
    /\ pages = 0
    /\ RateIdle

NextPages ==
    \/ FirstPage
    \/ FollowingPage

SpecPages == InitPages /\ [][NextPages]_vars

\* Geocode requests handled one at a time.
NextRate ==
    \/ \E client_ip \in GeoIps : CheckGeocodeRateLimit(client_ip)
    \/ Tick

SpecRate == Init /\ [][NextRate]_vars

\* Geocode requests that overlap.
NextRateConc ==
    \/ \E slot \in Slots, client_ip \in GeoIps : GeoRead(slot, client_ip)
    \/ \E slot \in Slots : GeoDecide(slot)
    \/ Tick

SpecRateConc == Init /\ [][NextRateConc]_vars

\* The clipping loops over every list of intervals, degenerate ones included.
InitClip ==
    /\ TripInit
    /\ HosIdle
    /\ StopsIdle
    /\ eld_pc = "idle"
    /\ eld_tz \in Zones
    /\ eld_segments \in ClipInputs
    /\ eld_logs = <<>>
    /\ clip_pc = "for"
    /\ clip_i = 0
    /\ clip_current = NoTime
    /\ clip_end = NoTime
    /\ raw_entries = <<>>
    /\ appended = 0
    /\ PageIdle
    /\ RateIdle

NextClip ==
    \/ ClipSegment
    \/ ClipLoop
    \/ ClipReturn

\* the loops run to their end: nothing but the loop itself can stop them
SpecClip == InitClip /\ [][NextClip]_vars /\ WF_vars(NextClip)

NextInclusive ==
    \/ ClipSegment
    \/ InclusiveLoop
    \/ ClipReturn

SpecInclusive == InitClip /\ [][NextInclusive]_vars /\ WF_vars(NextInclusive)

\* the same run over inputs that are sorted by start and may overlap
NextEldOverlap ==
    \/ \E status \in EldStatuses, start \in EldInstants, end \in EldInstants :
          EldAddSegment(status, start, end)
    \/ \E status \in EldStatuses, start \in EldInstants, end \in EldInstants :
          EldAddOverlapping(status, start, end)
    \/ EldBuild

SpecEldOverlap == InitEld /\ [][NextEldOverlap]_vars

InitStored ==
    /\ HosIdle
    /\ EldIdle
    /\ StopsIdle
    /\ trips \in {<<t>> : t \in StoredTrips}
    /\ events \in StoredEvents
    /\ start_time = <<0>>
    /\ request = NoRequest
    /\ response = NoResponse
    /\ inflight = [s \in Slots |-> Idle]
    /\ provider_calls = 0

NextStored ==
    \/ \E u \in Users, now \in Times : EldLogsCollect(u, 1, now)
    \/ EldBuild

SpecStored == InitStored /\ [][NextStored]_vars

InitStops ==
    /\ TripInit
    /\ HosIdle
    /\ EldIdle
    /\ stop_pc = "enter"
    /\ driving_duration_hours \in StopDurations
    /\ distance_miles \in StopDistances
    /\ index = 0
    /\ break_hour = 0
    /\ stops = <<>>

NextStops ==
    \/ EstimateStopsEnter
    \/ FuelStopLoop
    \/ BreakLoop
    \/ RestStopsAndReturn

SpecStops == InitStops /\ [][NextStops]_vars

(***************************************************************************)
(* Properties of the trip state machine.                                   *)
(***************************************************************************)
IsActive(trip) == trip.completed_at = NoTime
TripIds == 1..Len(trips)
OtherTripsUnchanged(tid) == \A o \in TripIds \ {tid} : trips'[o] = trips[o]
IsPrefix(a, b) == Len(a) <= Len(b) /\ SubSeq(b, 1, Len(a)) = a
\* the request being answered names a trip of its user
OnOwnTrip == request.op \in {"status", "complete"} /\ TripFound(request.user, request.trip_id)

\* C2: a status-change request on an Active trip with effective_at strictly
\* after the open interval's start is accepted; it appends exactly the closed
\* interval (old status, old start, effective_at), opens (requested status,
\* effective_at), leaves every other row alone and keeps completed_at null.
C2_StatusChangeClosesAndOpens ==
    [][(/\ request.op = "status"
        /\ request.fault = "none"
        /\ OnOwnTrip
        /\ IsActive(trips[request.trip_id])
        /\ request.effective_at > trips[request.trip_id].current_status_started_at)
       => LET tid == request.trip_id
          IN  /\ response'.code = 201
              /\ events' = Append(events,
                     [trip |-> tid, status |-> trips[tid].current_status,
                      start_time |-> trips[tid].current_status_started_at,
                      end_time |-> request.effective_at])
              /\ trips'[tid].current_status = request.status
              /\ trips'[tid].current_status_started_at = request.effective_at
              /\ trips'[tid].completed_at = NoTime
              /\ trips'[tid].user = trips[tid].user
              /\ Len(trips') = Len(trips)
              /\ OtherTripsUnchanged(tid)]_vars

C2_Witness ==
    /\ response.code = 201
    /\ events # <<>>
    /\ LET e == events[Len(events)]
       IN  /\ IsActive(trips[e.trip])
           /\ trips[e.trip].current_status_started_at = e.end_time
           /\ trips[e.trip].current_status # e.status

\* C3: an accepted completion closes the open interval at effective_at, sets
\* completed_at = effective_at and clears the current status; from then on the
\* trip row and its closed intervals never change again, and every
\* status-change or completion request on the trip is rejected.
C3_CompletionIsTerminal ==
    [][/\ (request.op = "complete" /\ response'.code = 200)
          => LET tid == request.trip_id
             IN  /\ events' = Append(events,
                        [trip |-> tid, status |-> trips[tid].current_status,
                         start_time |-> trips[tid].current_status_started_at,
                         end_time |-> request.effective_at])
                 /\ trips'[tid].completed_at = request.effective_at
                 /\ trips'[tid].current_status = NoStatus
                 /\ trips'[tid].current_status_started_at = NoTime
       /\ \A tid \in TripIds :
            ~IsActive(trips[tid])
            => /\ trips'[tid] = trips[tid]
               /\ ClosedOf(events', tid) = ClosedOf(events, tid)
               /\ trips'[tid].current_status = NoStatus
       /\ (OnOwnTrip /\ ~IsActive(trips[request.trip_id]))
          => (response'.code = 400 /\ UNCHANGED <<trips, events>>)]_vars

C3_Witness ==
    \E tid \in TripIds :
        /\ ~IsActive(trips[tid])
        /\ trips[tid].current_status = NoStatus
        /\ response.code = 400
        /\ \E e \in 1..Len(events) :
              events[e].trip = tid /\ events[e].end_time = trips[tid].completed_at

\* C4: current_status and current_status_started_at are both set or both null,
\* and both null exactly when completed_at is set; a newly created trip is
\* Active with open interval (start_status, start_time) and no closed interval.
C4_PairingHolds(rows) ==
    \A tid \in 1..Len(rows) :
        /\ (rows[tid].current_status = NoStatus) <=> (rows[tid].current_status_started_at = NoTime)
        /\ (rows[tid].current_status = NoStatus) <=> (rows[tid].completed_at # NoTime)

C4_ActiveOrCompleted ==
    [][/\ C4_PairingHolds(trips')
       /\ (request.op = "create" /\ response'.code = 201)
          => /\ Len(trips') = Len(trips) + 1
             /\ trips'[Len(trips')].current_status = request.status
             /\ trips'[Len(trips')].current_status_started_at = request.effective_at
             /\ trips'[Len(trips')].completed_at = NoTime
             /\ ClosedOf(events', Len(trips')) = <<>>]_vars

C4_Witness ==
    /\ Len(trips) = 2
    /\ ~IsActive(trips[1])
    /\ trips[1].current_status = NoStatus
    /\ trips[1].current_status_started_at = NoTime
    /\ IsActive(trips[2])
    /\ trips[2].current_status # NoStatus
    /\ trips[2].current_status_started_at # NoTime

\* C5: a status-change or completion request on a completed trip, or with
\* effective_at <= the open interval's start (equality included), answers 400
\* and changes no Trip row and no StatusEvent row.
C5_RejectionMutatesNothing ==
    [][(/\ OnOwnTrip
        /\ \/ ~IsActive(trips[request.trip_id])
           \/ request.effective_at <= trips[request.trip_id].current_status_started_at)
       => (response'.code = 400 /\ UNCHANGED <<trips, events>>)]_vars

\* a request with effective_at equal to the open interval's start is pending
C5_Witness ==
    /\ OnOwnTrip
    /\ IsActive(trips[request.trip_id])
    /\ request.fault = "none"
    /\ request.effective_at = trips[request.trip_id].current_status_started_at
    /\ ClosedOf(events, request.trip_id) # <<>>

\* C6: with overlapping requests no open interval is closed twice (no two
\* closed intervals of a trip share a start or overlap), and a trip whose
\* completed_at is set has no current status.
C6_ConcurrentRequestsSerialize ==
    /\ \A i, j \in 1..Len(events) :
          (i < j /\ events[i].trip = events[j].trip)
          => (events[i].end_time <= events[j].start_time
              \/ events[j].end_time <= events[i].start_time)
    /\ \A tid \in TripIds :
          trips[tid].completed_at # NoTime => trips[tid].current_status = NoStatus

\* C7: the closed intervals are append-only, have non-decreasing start in
\* creation order within a trip, and each has end > start.
C7_ClosedHistory ==
    [][/\ IsPrefix(events, events')
       /\ \A i \in 1..Len(events') : events'[i].end_time > events'[i].start_time
       /\ \A i, j \in 1..Len(events') :
            (i < j /\ events'[i].trip = events'[j].trip)
            => events'[i].start_time <= events'[j].start_time]_vars

C7_Witness ==
    \E tid \in TripIds :
        /\ Len(ClosedOf(events, tid)) >= 2
        /\ ClosedOf(events, tid)[1].start_time < ClosedOf(events, tid)[2].start_time

\* C8: in every persisted state the closed intervals of a trip are contiguous:
\* the first starts at the trip's start_time, each next one starts where the
\* previous ended, and the last ends at current_status_started_at (Active) or
\* completed_at (Completed); a trip without closed intervals is still in its
\* first open interval.
C8_ContiguousTimeline ==
    \A tid \in TripIds :
        LET c == ClosedOf(events, tid)
            frontier == IF IsActive(trips[tid]) THEN trips[tid].current_status_started_at
                        ELSE trips[tid].completed_at
        IN  IF c = <<>>
            THEN IsActive(trips[tid]) /\ frontier = start_time[tid]
            ELSE /\ c[1].start_time = start_time[tid]
                 /\ \A i \in 1..(Len(c) - 1) : c[i + 1].start_time = c[i].end_time
                 /\ c[Len(c)].end_time = frontier

C8_Witness ==
    /\ response.code = 500
    /\ \E tid \in TripIds : IsActive(trips[tid]) /\ Len(ClosedOf(events, tid)) >= 1
    /\ \E tid \in TripIds : ~IsActive(trips[tid]) /\ Len(ClosedOf(events, tid)) >= 1

\* C9 as stated: the warnings returned after an accepted status change or
\* completion are those of the evaluator run over the output of
\* _collect_eld_segments (closed history plus the open interval up to now),
\* whatever the clock reads.
C9_WarningsOverAssembledTimeline ==
    [][(request.op \in {"status", "complete"} /\ response'.code \in {200, 201})
       => LET tid == request.trip_id
          IN  \A now \in Times :
                response'.warnings =
                    HosWarnings(HosScan(HosInit,
                                        CollectEldSegments(trips'[tid], events', tid, now)),
                                trips'[tid].cycle_used_hours)]_vars

\* C9 amended: the warnings returned after an accepted status change or
\* completion are those of the evaluator run over the closed intervals of the
\* trip only, the one just closed included; the open interval is not part of
\* the input.  After a completion that input equals _collect_eld_segments.
C9_WarningsOverClosedHistory ==
    [][(request.op \in {"status", "complete"} /\ response'.code \in {200, 201})
       => LET tid == request.trip_id
              closed == ClosedOf(events', tid)
          IN  /\ closed # <<>>
              /\ closed[Len(closed)].end_time = request.effective_at
              /\ response'.warnings =
                    HosWarnings(HosScan(HosInit, closed), trips'[tid].cycle_used_hours)
              /\ request.op = "complete"
                 => \A now \in Times :
                       CollectEldSegments(trips'[tid], events', tid, now) = closed]_vars

\* a status change into Driving was accepted before the last clock reading, the
\* closed history holds no on-duty time, and no warning was returned although
\* the cycle is used up
C9_Witness ==
    /\ response.code = 201
    /\ response.warnings = <<>>
    /\ \E tid \in TripIds :
          /\ IsActive(trips[tid])
          /\ trips[tid].current_status = STATUS_DRIVING
          /\ trips[tid].current_status_started_at < MaxTime
          /\ trips[tid].cycle_used_hours = CYCLE_MAX
          /\ ClosedOf(events, tid) # <<>>
          /\ \A i \in 1..Len(ClosedOf(events, tid)) :
                ClosedOf(events, tid)[i].status = STATUS_OFF_DUTY

(***************************************************************************)
(* Properties of the HOS evaluator.                                        *)
(***************************************************************************)
\* C10: after the loop has processed an Off-Duty or Sleeper-Berth interval of
\* 10 hours or more (exactly 10 hours included), the three accumulators are
\* zero and only the reset branch has touched the state (shift_start and
\* last_break_end are the interval's end).
C10_ResetZeroesAccumulators ==
    (hos_i >= 1
     /\ hos_events[hos_i].status \in {STATUS_OFF_DUTY, STATUS_SLEEPER}
     /\ hos_events[hos_i].end_time - hos_events[hos_i].start_time >= TEN_HOURS)
    => /\ hos_acc.driving_since_break = 0
       /\ hos_acc.driving_total = 0
       /\ hos_acc.on_duty_total = 0
       /\ hos_acc.shift_start = hos_events[hos_i].end_time
       /\ hos_acc.last_break_end = hos_events[hos_i].end_time

\* a rest of exactly 10 hours has just been processed right after driving
C10_Witness ==
    /\ hos_i >= 2
    /\ hos_events[hos_i - 1].end_time > hos_events[hos_i - 1].start_time
    /\ hos_events[hos_i].status \in {STATUS_OFF_DUTY, STATUS_SLEEPER}
    /\ hos_events[hos_i].end_time - hos_events[hos_i].start_time = TEN_HOURS
    /\ hos_events[hos_i - 1].status = STATUS_DRIVING
    /\ hos_acc.driving_total = 0
    /\ hos_acc.on_duty_total = 0
    /\ hos_acc.driving_since_break = 0

\* the rules as the specification states them, over the whole history
LastIndex(evs, Qualifies(_)) ==
    LET hits == {i \in 1..Len(evs) : Qualifies(evs[i])}
    IN  IF hits = {} THEN 0 ELSE CHOOSE m \in hits : \A h \in hits : h <= m

RestOfAtLeast(e, d) ==
    e.status \in {STATUS_OFF_DUTY, STATUS_SLEEPER} /\ e.end_time - e.start_time >= d

RECURSIVE SumAfter(_, _, _)
\* the summed duration of the intervals after index k whose status is in S
SumAfter(evs, k, S) ==
    IF k >= Len(evs) THEN 0
    ELSE (IF evs[k + 1].status \in S THEN evs[k + 1].end_time - evs[k + 1].start_time ELSE 0)
         + SumAfter(evs, k + 1, S)

DrivingTotal(evs) ==
    SumAfter(evs, LastIndex(evs, LAMBDA e : RestOfAtLeast(e, TEN_HOURS)), {STATUS_DRIVING})
OnDutyTotal(evs) ==
    SumAfter(evs, LastIndex(evs, LAMBDA e : RestOfAtLeast(e, TEN_HOURS)),
             {STATUS_DRIVING, STATUS_ON_DUTY})
DrivingSinceBreak(evs) ==
    SumAfter(evs, LastIndex(evs, LAMBDA e : RestOfAtLeast(e, HALF_HOUR)), {STATUS_DRIVING})

Emitted(w) == \E i \in 1..Len(hos_warnings) : hos_warnings[i] = w

\* C11: the returned list is exactly the sub-list, in the fixed order
\* (11-hour driving, 14-hour on-duty, 30-minute break, 70-hour cycle), of the
\* rules whose threshold is strictly exceeded; a value equal to its threshold
\* emits no warning and the four checks are independent.
C11_WarningEmission ==
    hos_pc = "done"
    => hos_warnings =
          (IF DrivingTotal(hos_events) > ELEVEN_HOURS THEN <<WARN_DRIVING>> ELSE <<>>)
          \o (IF OnDutyTotal(hos_events) > FOURTEEN_HOURS THEN <<WARN_ON_DUTY>> ELSE <<>>)
          \o (IF DrivingSinceBreak(hos_events) > EIGHT_HOURS THEN <<WARN_BREAK>> ELSE <<>>)
          \o (IF hos_cycle + OnDutyTotal(hos_events) * TICK_HUNDREDTHS > CYCLE_LIMIT
              THEN <<WARN_CYCLE>> ELSE <<>>)

\* The three duration rules are emitted exactly as stated, in the stated
\* order, whatever the cycle rule does.
DurationRulesExact ==
    hos_pc = "done"
    => SelectSeq(hos_warnings, LAMBDA w : w # WARN_CYCLE) =
          (IF DrivingTotal(hos_events) > ELEVEN_HOURS THEN <<WARN_DRIVING>> ELSE <<>>)
          \o (IF OnDutyTotal(hos_events) > FOURTEEN_HOURS THEN <<WARN_ON_DUTY>> ELSE <<>>)
          \o (IF DrivingSinceBreak(hos_events) > EIGHT_HOURS THEN <<WARN_BREAK>> ELSE <<>>)

\* the history of the scenario: one Driving interval of 12 hours, and a
\* cycle_used_hours that stays below 70 with those 12 hours added
SingleTwelveHourDrive ==
    /\ hos_pc = "done"
    /\ hos_events = <<[status |-> STATUS_DRIVING, start_time |-> 0,
                       end_time |-> 12 * TICKS_PER_HOUR]>>
    /\ hos_cycle + 12 * TICKS_PER_HOUR * TICK_HUNDREDTHS < CYCLE_LIMIT

\* C12 as stated: for a single Driving interval of 12 hours with no prior
\* history the 11-hour driving warning is the only warning returned.
C12_OnlyDrivingWarning ==
    SingleTwelveHourDrive => hos_warnings = <<WARN_DRIVING>>

\* C12 amended: for a single Driving interval of 12 hours with no prior
\* history the warnings are the 11-hour driving warning followed by the
\* 30-minute break warning (12 hours of driving without a break exceed 8
\* hours); the 14-hour on-duty warning and the cycle warning are absent.
C12_DrivingAndBreakWarnings ==
    SingleTwelveHourDrive => hos_warnings = <<WARN_DRIVING, WARN_BREAK>>

C12_Witness ==
    /\ SingleTwelveHourDrive
    /\ Emitted(WARN_DRIVING)
    /\ ~Emitted(WARN_ON_DUTY)

\* C13: the cycle warning is emitted if and only if cycle_used_hours plus the
\* on-duty time accumulated since the last qualifying reset, in hours, is
\* strictly greater than 70; on-duty time before that reset does not count.
C13_CycleLimitRule ==
    hos_pc = "done"
    => (Emitted(WARN_CYCLE)
        <=> hos_cycle + OnDutyTotal(hos_events) * TICK_HUNDREDTHS > CYCLE_LIMIT)

\* The cycle rule is exact whenever the sum is not exactly 70 hours, and at
\* exactly 70 hours whenever the on-duty hours are a binary fraction (the
\* scenarios 65 + 6.5, 65 + 4.0 and 65 + 5.0 among them).
CycleRuleAwayFromRounding ==
    (hos_pc = "done"
     /\ \/ hos_cycle + OnDutyTotal(hos_events) * TICK_HUNDREDTHS # CYCLE_LIMIT
        \/ FloatError(OnDutyTotal(hos_events), TICKS_PER_HOUR) = 0)
    => (Emitted(WARN_CYCLE)
        <=> hos_cycle + OnDutyTotal(hos_events) * TICK_HUNDREDTHS > CYCLE_LIMIT)

\* C17: an interval with end <= start is dropped by the evaluator: the
\* warnings equal those computed on the history with such intervals removed.
C17_DegenerateIntervalsDropped ==
    hos_pc = "done"
    => hos_warnings =
          HosWarnings(HosScan(HosInit,
                              SelectSeq(hos_events, LAMBDA e : e.end_time > e.start_time)),
                      hos_cycle)

(***************************************************************************)
(* Properties of the timeline assembler.                                   *)
(***************************************************************************)
RemoveAt(seq, p) == SubSeq(seq, 1, p - 1) \o SubSeq(seq, p + 1, Len(seq))

\* what the assembler is to return for trip 1 at the clock reading now
IsAssembledTimeline(out, now) ==
    LET trip == trips[1]
        kept == SelectSeq(StatusEventsOf(events, 1), LAMBDA e : e.end_time > e.start_time)
        as_of == IF trip.completed_at # NoTime THEN trip.completed_at ELSE now
        has_open == /\ trip.current_status # NoStatus
                    /\ trip.current_status_started_at # NoTime
                    /\ as_of > trip.current_status_started_at
        open == [status |-> trip.current_status,
                 start_time |-> trip.current_status_started_at, end_time |-> as_of]
    IN  /\ \A i \in 1..Len(out) : out[i].end_time > out[i].start_time
        /\ \A i, j \in 1..Len(out) : i < j => out[i].start_time <= out[j].start_time
        /\ IF has_open
           THEN \E p \in 1..Len(out) :
                    /\ out[p] = open
                    /\ RemoveAt(out, p) = kept
                    /\ \A i \in 1..(p - 1) : out[i].start_time <= open.start_time
                    /\ \A i \in (p + 1)..Len(out) : out[i].start_time > open.start_time
           ELSE out = kept

\* C15: the assembler returns exactly the closed intervals with end > start
\* plus, when the trip has an open interval and as_of (completed_at if set,
\* else now) is after its start, the interval (current_status,
\* current_status_started_at, as_of); sorted by start with ties in insertion
\* order (the open interval after the closed ones); never end <= start.
C15_AssembledTimeline ==
    [][(eld_pc = "idle" /\ eld_pc' = "input")
       => \E now \in Times : IsAssembledTimeline(eld_segments', now)]_vars

\* a closed interval with end <= start was dropped, and the open interval was
\* placed after a closed interval with the same start
C15_Witness ==
    /\ eld_pc = "input"
    /\ Len(events) = 2
    /\ \E i \in 1..2 : events[i].end_time <= events[i].start_time
    /\ Len(eld_segments) = 2
    /\ eld_segments[1].status = STATUS_OFF_DUTY
    /\ eld_segments[2].status = STATUS_DRIVING
    /\ eld_segments[1].start_time = eld_segments[2].start_time

(***************************************************************************)
(* Properties of the day partitioner.                                      *)
(***************************************************************************)
Tiles(log) ==
    LET n == Len(log.entries)
    IN  /\ n >= 1
        /\ log.entries[1].start_time = log.date * ONE_DAY
        /\ log.entries[n].end_time = log.date * ONE_DAY + ONE_DAY - MICROSECOND
        /\ \A i \in 1..(n - 1) : log.entries[i].end_time = log.entries[i + 1].start_time
        /\ \A i \in 1..n : log.entries[i].end_time > log.entries[i].start_time

\* C1: for every input sorted by start with no two intervals overlapping,
\* every emitted day log tiles its local day: the first entry starts at
\* 00:00:00.000000, the last ends at 23:59:59.999999, each entry ends where the
\* next starts, and every entry has end > start.
C1_DayTiling ==
    eld_pc = "built" => \A k \in 1..Len(eld_logs) : Tiles(eld_logs[k])

\* The tiling does hold in every zone whose UTC offset never steps back.
DayTilingWithoutFallBack ==
    (eld_pc = "built" /\ eld_tz.after >= eld_tz.before)
    => \A k \in 1..Len(eld_logs) : Tiles(eld_logs[k])

\* C14: for an input sorted by start in which intervals overlap each other,
\* every emitted day log still has entries with no overlap and no gap (stated
\* here for the zone without transitions).
C14_OverlappingInputTiles ==
    (eld_pc = "built" /\ eld_tz = ZONE_FIXED)
    => \A k \in 1..Len(eld_logs) : Tiles(eld_logs[k])

\* the local calendar days on which some instant of some interval falls
DaysOverlapped(segments, tz) ==
    {DateOf(Localtime(tz, t)) :
        t \in UNION {segments[i].start_time..(segments[i].end_time - 1) :
                        i \in 1..Len(segments)}}

LogDates(logs) == {logs[k].date : k \in 1..Len(logs)}

OvernightDrive ==
    <<[status |-> STATUS_DRIVING, start_time |-> 22 * ONE_HOUR,
       end_time |-> ONE_DAY + 2 * ONE_HOUR]>>

OvernightDriveLogs ==
    <<[date |-> 0,
       entries |-> <<[status |-> STATUS_OFF_DUTY, start_time |-> 0,
                      end_time |-> 22 * ONE_HOUR],
                     [status |-> STATUS_DRIVING, start_time |-> 22 * ONE_HOUR,
                      end_time |-> ONE_DAY - MICROSECOND]>>],
      [date |-> 1,
       entries |-> <<[status |-> STATUS_DRIVING, start_time |-> ONE_DAY,
                      end_time |-> ONE_DAY + 2 * ONE_HOUR],
                     [status |-> STATUS_OFF_DUTY, start_time |-> ONE_DAY + 2 * ONE_HOUR,
                      end_time |-> 2 * ONE_DAY - MICROSECOND]>>]>>

\* C16: there is exactly one day log for each local calendar day an interval
\* overlaps and none for any other day (an interval ending exactly at local
\* midnight gives no log for the day that begins there); a Driving interval
\* from 22:00 to 02:00 gives the two day logs of the scenario.
C16_DayClipping ==
    eld_pc = "built"
    => /\ LogDates(eld_logs) = DaysOverlapped(eld_segments, eld_tz)
       /\ Len(eld_logs) = Cardinality(LogDates(eld_logs))
       /\ (eld_segments = OvernightDrive /\ eld_tz = ZONE_FIXED)
          => eld_logs = OvernightDriveLogs

\* The clipping is as stated in every zone whose UTC offset never steps back.
DayClippingWithoutFallBack ==
    (eld_pc = "built" /\ eld_tz.after >= eld_tz.before)
    => /\ LogDates(eld_logs) = DaysOverlapped(eld_segments, eld_tz)
       /\ Len(eld_logs) = Cardinality(LogDates(eld_logs))
       /\ (eld_segments = OvernightDrive /\ eld_tz = ZONE_FIXED)
          => eld_logs = OvernightDriveLogs

\* the scenario has been run
OvernightDriveBuilt ==
    eld_pc = "built" /\ eld_segments = OvernightDrive /\ eld_tz = ZONE_FIXED

(***************************************************************************)
(* Properties of the stop planner.                                         *)
(***************************************************************************)
StopsOfType(type) == SelectSeq(stops, LAMBDA st : st.type = type)

\* the k with 1000 * k strictly less than the distance
FuelMarkers == {k \in 1..(MaxFuelStops + 1) : FUEL_STOP_INTERVAL_MILES * k < distance_miles}

\* C18: for duration > 0 and distance > 0 there is exactly one fuel stop for
\* each k >= 1 with 1000 * k < distance (none up to 1000 miles, one at exactly
\* 2000), with eta_hours = duration * 1000 * k / distance rounded to 2
\* decimals and duration 0.5; 2500 miles in 40 hours give 2 fuel stops, at
\* 16.0 and 32.0.
C18_FuelStops ==
    (stop_pc = "done" /\ driving_duration_hours > 0 /\ distance_miles > 0)
    => LET fuel == StopsOfType("fuel")
       IN  /\ Len(fuel) = Cardinality(FuelMarkers)
           /\ \A k \in 1..Len(fuel) :
                 /\ 2 * (fuel[k].eta_hours * distance_miles
                          - driving_duration_hours * FUEL_STOP_INTERVAL_MILES * k) <= distance_miles
                 /\ 2 * (driving_duration_hours * FUEL_STOP_INTERVAL_MILES * k
                          - fuel[k].eta_hours * distance_miles) <= distance_miles
                 /\ fuel[k].duration_hours = 50
           /\ (distance_miles <= 1000 => fuel = <<>>)
           /\ (distance_miles = 2000 => Len(fuel) = 1)
           /\ (distance_miles = 2500 /\ driving_duration_hours = 4000)
              => fuel = <<Stop("fuel", 1600, 50), Stop("fuel", 3200, 50)>>

\* the scenario has been run
C18_Witness ==
    /\ stop_pc = "done"
    /\ driving_duration_hours = 4000
    /\ distance_miles = 2500
    /\ Len(StopsOfType("fuel")) = 2

\* C19: for duration D > 0 the break stops are exactly those at 8, 16, 24,
\* ... hours with eta <= D, 0.5 h each; the rest stops are one 10-hour rest
\* at 11 if D >= 11 and one at 70 if D >= 70, whatever the breaks and fuel
\* stops; for D <= 0 the list is empty.
C19_BreakAndRestStops ==
    stop_pc = "done"
    => IF driving_duration_hours <= 0 THEN stops = <<>>
       ELSE /\ StopsOfType("break") =
                  [k \in 1..(driving_duration_hours \div 800) |-> Stop("break", 800 * k, 50)]
            /\ StopsOfType("rest") =
                  (IF driving_duration_hours >= 1100 THEN <<Stop("rest", 1100, 1000)>> ELSE <<>>)
                  \o (IF driving_duration_hours >= 7000 THEN <<Stop("rest", 7000, 1000)>> ELSE <<>>)

\* 70 hours of driving over 2500 miles: the eight breaks up to hour 64, both
\* rests and two fuel stops
C19_Witness ==
    /\ stop_pc = "done"
    /\ driving_duration_hours = 7000
    /\ distance_miles = 2500
    /\ Len(StopsOfType("break")) = 8
    /\ Len(StopsOfType("rest")) = 2
    /\ Len(StopsOfType("fuel")) = 2

(***************************************************************************)
(* The route provider.                                                     *)
(***************************************************************************)
FailingOutcomes == RouteOutcomes \ {ROUTE_OK}

RouteColumnsNull(trip) ==
    /\ trip.route_distance_miles = None
    /\ trip.route_duration_hours = None
    /\ trip.route_polyline = None
    /\ trip.route_stops = None

\* the create request passes every check made before the route is requested
CreateAcceptable ==
    /\ request.op = "create"
    /\ request.fault = "none"
    /\ ~HasActiveTrip(request.user)
    /\ ~(LatestCompletedAt(request.user) # NoTime
         /\ request.effective_at < LatestCompletedAt(request.user))

\* C20: when the route provider raises, returns no route, or returns a
\* non-numeric distance or duration, _build_route_summary returns the empty
\* summary and the create request is still answered 201 with a new Active trip
\* holding its open interval and null route distance, duration, polyline and
\* stops; status-change and completion requests never call the route provider
\* and are answered as they would be with a working one.
C20_RouteFailureNonFatal ==
    [][/\ \A outcome \in FailingOutcomes : BuildRouteSummary(outcome) = {EmptySummary}
       /\ (CreateAcceptable /\ request.route \in FailingOutcomes)
          => /\ response'.code = 201
             /\ Len(trips') = Len(trips) + 1
             /\ trips'[Len(trips')].user = request.user
             /\ IsActive(trips'[Len(trips')])
             /\ trips'[Len(trips')].current_status = request.status
             /\ trips'[Len(trips')].current_status_started_at = request.effective_at
             /\ RouteColumnsNull(trips'[Len(trips')])
       /\ request.op \in {"status", "complete"}
          => /\ provider_calls' = provider_calls
             /\ response'.code = TransitionCode(request.user, request.trip_id, request.effective_at,
                                                request.fault,
                                                IF request.op = "status" THEN 201 ELSE 200)]_vars

\* a trip created while the provider failed has since had a status change
\* accepted, the provider never having answered
C20_Witness ==
    /\ provider_calls = 1
    /\ Len(trips) = 1
    /\ RouteColumnsNull(trips[1])
    /\ IsActive(trips[1])
    /\ ClosedOf(events, 1) # <<>>
    /\ response.code = 201

\* a trip created while the provider answered holds the whole summary
RouteSummaryStored ==
    \A tid \in 1..Len(trips) :
        \/ RouteColumnsNull(trips[tid])
        \/ /\ trips[tid].route_distance_miles = Some(250000)
           /\ trips[tid].route_duration_hours = Some(4100)
           /\ trips[tid].route_polyline = Some("polyline")
           /\ trips[tid].route_stops \subseteq EstimateStops(4000, 2500)
           /\ trips[tid].route_stops # None

\* the stepwise planner returns one of the lists of the function
PlannerAgrees ==
    stop_pc = "done" => stops \in EstimateStops(driving_duration_hours, distance_miles)

(***************************************************************************)
(* Trip isolation.                                                         *)
(***************************************************************************)
TripOps == {"status", "complete"} \cup ReadOps

\* C21: a status-change, completion, summary, route or ELD-log request that
\* names a trip which does not exist or belongs to another user is answered
\* 404, which is not the 400 of a validation rejection, and leaves every trip
\* and every closed interval unchanged; a request naming the caller's own trip
\* is never answered 404.
C21_TripIsolation ==
    [][request.op \in TripOps
       => /\ (\/ request.trip_id \notin 1..Len(trips)
              \/ trips[request.trip_id].user # request.user)
             => /\ response'.code = 404
                /\ response'.code # 400
                /\ trips' = trips
                /\ events' = events
          /\ (/\ request.trip_id \in 1..Len(trips)
              /\ trips[request.trip_id].user = request.user)
             => response'.code # 404]_vars

\* both users have a trip, one of them with closed intervals, and the last
\* request named the trip of the other user
C21_Witness ==
    /\ Len(trips) = MaxTrips
    /\ trips[1].user # trips[2].user
    /\ events # <<>>
    /\ response.code = 404

(***************************************************************************)
(* The break rule, and rests split into several intervals.                 *)
(***************************************************************************)
\* the interval the loop of _calculate_warnings handles next
HosNext == hos_events[hos_i + 1]

HosNextDuration == HosNext.end_time - HosNext.start_time

TotalsUnchanged ==
    /\ hos_acc'.driving_total = hos_acc.driving_total
    /\ hos_acc'.on_duty_total = hos_acc.on_duty_total

\* C22: an Off-Duty or Sleeper-Berth interval of at least 30 minutes and less
\* than 10 hours sets driving_since_break to zero and leaves driving_total and
\* on_duty_total unchanged; one shorter than 30 minutes changes none of the
\* three accumulators.
C22_BreakRule ==
    [][(hos_pc = "loop" /\ hos_i < Len(hos_events) /\ IsRest(HosNext.status))
       => /\ (HosNextDuration >= HALF_HOUR /\ HosNextDuration < TEN_HOURS)
             => (hos_acc'.driving_since_break = 0 /\ TotalsUnchanged)
          /\ HosNextDuration < HALF_HOUR
             => (hos_acc'.driving_since_break = hos_acc.driving_since_break
                 /\ TotalsUnchanged)]_vars

\* driving, then a rest of exactly 30 minutes: the driving total stands and
\* the driving since the last break is cleared
C22_Witness ==
    /\ hos_i >= 2
    /\ hos_events[hos_i - 1].status = STATUS_DRIVING
    /\ hos_events[hos_i - 1].end_time > hos_events[hos_i - 1].start_time
    /\ IsRest(hos_events[hos_i].status)
    /\ hos_events[hos_i].end_time - hos_events[hos_i].start_time = HALF_HOUR
    /\ hos_acc.driving_since_break = 0
    /\ hos_acc.driving_total > 0
    /\ hos_acc.on_duty_total > 0

SpanOf(e) == e.end_time - e.start_time

\* intervals i and i + 1 of the history are adjacent rests
AdjacentRests(evs, i) ==
    /\ i + 1 <= Len(evs)
    /\ IsRest(evs[i].status)
    /\ IsRest(evs[i + 1].status)
    /\ evs[i].end_time = evs[i + 1].start_time

\* the accumulators of _calculate_warnings over a history do not add up the
\* durations of adjacent rests
RestsNotMerged(evs) ==
    \A i \in 1..Len(evs) :
        AdjacentRests(evs, i)
        => /\ (SpanOf(evs[i]) < TEN_HOURS /\ SpanOf(evs[i + 1]) < TEN_HOURS)
              => /\ HosScan(HosInit, SubSeq(evs, 1, i + 1)).driving_total
                      = HosScan(HosInit, SubSeq(evs, 1, i - 1)).driving_total
                 /\ HosScan(HosInit, SubSeq(evs, 1, i + 1)).on_duty_total
                      = HosScan(HosInit, SubSeq(evs, 1, i - 1)).on_duty_total
           /\ (SpanOf(evs[i]) < HALF_HOUR /\ SpanOf(evs[i + 1]) < HALF_HOUR)
              => HosScan(HosInit, SubSeq(evs, 1, i + 1)).driving_since_break
                   = HosScan(HosInit, SubSeq(evs, 1, i - 1)).driving_since_break

\* C23: a status change to the same status, or between Off-Duty and
\* Sleeper-Berth, is accepted and closes the running interval as a closed
\* interval of its own; two adjacent rest intervals each shorter than 10
\* hours leave driving_total and on_duty_total as they were before them, and
\* two adjacent rests each shorter than 30 minutes leave driving_since_break
\* as it was, whatever their combined duration.
C23_PerIntervalDetection ==
    [][/\ (/\ request.op = "status"
           /\ TripFound(request.user, request.trip_id)
           /\ IsActive(trips[request.trip_id])
           /\ request.fault = "none"
           /\ request.effective_at > trips[request.trip_id].current_status_started_at
           /\ \/ request.status = trips[request.trip_id].current_status
              \/ IsRest(request.status) /\ IsRest(trips[request.trip_id].current_status))
          => /\ response'.code = 201
             /\ events' = Append(events,
                                 [trip |-> request.trip_id,
                                  status |-> trips[request.trip_id].current_status,
                                  start_time |-> trips[request.trip_id].current_status_started_at,
                                  end_time |-> request.effective_at])
             /\ trips'[request.trip_id].current_status = request.status
             /\ trips'[request.trip_id].current_status_started_at = request.effective_at
       /\ \A tid \in 1..Len(trips') : RestsNotMerged(StatusEventsOf(events', tid))]_vars

\* 11.1 hours of driving, then rests of 9.9 h and 0.1 h under different rest
\* statuses: the driving warning is still given
C23_Witness ==
    /\ Len(trips) = 1
    /\ ClosedOf(events, 1) =
          <<[status |-> STATUS_DRIVING, start_time |-> 0, end_time |-> 111],
            [status |-> STATUS_OFF_DUTY, start_time |-> 111, end_time |-> 210],
            [status |-> STATUS_SLEEPER, start_time |-> 210, end_time |-> 211]>>
    /\ response = Respond(201, <<WARN_DRIVING>>)

\* 8.1 hours of driving, then rests of 18 and 12 minutes under one status:
\* the break warning is still given
SplitShortRests ==
    /\ Len(trips) = 1
    /\ ClosedOf(events, 1) =
          <<[status |-> STATUS_DRIVING, start_time |-> 0, end_time |-> 81],
            [status |-> STATUS_OFF_DUTY, start_time |-> 81, end_time |-> 84],
            [status |-> STATUS_OFF_DUTY, start_time |-> 84, end_time |-> 86]>>
    /\ response = Respond(201, <<WARN_BREAK>>)

(***************************************************************************)
(* One active trip per user.                                               *)
(***************************************************************************)
ActiveTripsOf(u) ==
    {i \in 1..Len(trips) : trips[i].user = u /\ trips[i].completed_at = NoTime}

\* C24: in every reachable state, also when trip creations of one user
\* overlap, a user has at most one trip with completed_at null.
C24_AtMostOneActiveTrip ==
    \A u \in Users : Cardinality(ActiveTripsOf(u)) <= 1

\* requests handled one at a time: a user with an Active trip and a completed one
OneActiveAfterCompleted ==
    \E u \in Users :
        /\ Cardinality(ActiveTripsOf(u)) = 1
        /\ \E i \in 1..Len(trips) : trips[i].user = u /\ trips[i].completed_at # NoTime

(***************************************************************************)
(* Termination of the clipping loops.                                      *)
(***************************************************************************)
ClipTerminates == <>(clip_pc = "done")

CursorIncreases ==
    [][(clip_pc = "while" /\ clip_pc' = "while") => clip_current' > clip_current]_vars

\* the segment last taken has been clipped or skipped
SegmentFinished == clip_pc \in {"for", "done"} /\ clip_i >= 1

\* C25: the half-open clipping loop terminates for every list of intervals,
\* its cursor strictly increases on every iteration, and an interval that
\* overlaps k local calendar days contributes exactly k raw entries.
C25_HalfOpenClipping ==
    /\ ClipTerminates
    /\ CursorIncreases
    /\ [](SegmentFinished
          => appended = Cardinality(DaysOverlapped(<<eld_segments[clip_i]>>, eld_tz)))

\* The entries are one per day in every zone whose UTC offset never steps back.
EntriesPerDayWithoutFallBack ==
    (SegmentFinished /\ eld_tz.after >= eld_tz.before)
    => appended = Cardinality(DaysOverlapped(<<eld_segments[clip_i]>>, eld_tz))

\* the loop run step by step gives the entries of the function
ClipAgrees ==
    clip_pc = "done" => raw_entries = RawEntries(eld_segments, eld_tz)

\* C26: the clipping loop whose day ends at 23:59:59.999999 terminates for
\* every interval with end > start, also one within a single calendar day,
\* and emits only raw entries with end > start.
C26_InclusiveClipping ==
    /\ ClipTerminates
    /\ [](\A k \in 1..Len(raw_entries) :
             raw_entries[k].end_time > raw_entries[k].start_time)

\* The loop ends only for an interval that ends at the last microsecond of a day.
InclusiveEndsOnlyAtDayEnd ==
    (clip_pc = "for" /\ clip_i >= 1 /\ appended >= 1)
    => clip_end = Midnight(clip_end) + ONE_DAY - MICROSECOND

(***************************************************************************)
(* The logs of the completed trips.                                        *)
(***************************************************************************)
\* a creation whose start_time is earlier than the latest completed_at of its
\* user is answered 400 and adds no trip
EarlyCreateRejected ==
    [][(/\ request.op = "create"
        /\ LatestCompletedAt(request.user) # NoTime
        /\ request.effective_at < LatestCompletedAt(request.user))
       => (response'.code = 400 /\ trips' = trips)]_vars

\* the closed intervals of the completed trips of u1, pairwise
CompletedIntervalsDisjoint ==
    LET evs == CompletedEvents("u1")
    IN  \A i \in 1..Len(evs), j \in 1..Len(evs) :
           i < j => (evs[i].end_time <= evs[j].start_time
                     \/ evs[j].end_time <= evs[i].start_time)

CompletedLogsTile ==
    page.code = 200 => \A k \in 1..Len(page.logs) : Tiles(page.logs[k])

\* C27: a creation with start_time earlier than the latest completed_at of its
\* user is rejected; after any sequence of requests handled one at a time the
\* closed intervals of the user's completed trips are pairwise non-overlapping,
\* and every day log built over them tiles its day.
C27_CrossTripOrdering ==
    /\ EarlyCreateRejected
    /\ [](CompletedIntervalsDisjoint /\ CompletedLogsTile)

\* The first two parts hold: early creations are rejected and the closed
\* intervals of two completed trips never overlap.
CrossTripOrderingOfIntervals ==
    EarlyCreateRejected /\ []CompletedIntervalsDisjoint

\* two completed trips, the second created after an early creation was rejected
TwoCompletedTrips ==
    /\ Len(trips) = 2
    /\ \A i \in 1..2 : trips[i].completed_at # NoTime
    /\ Len(CompletedEvents("u1")) >= 2

\* The day logs tile in every zone whose UTC offset never steps back.
CompletedLogsTileWithoutFallBack ==
    (page.code = 200 /\ eld_tz.after >= eld_tz.before)
    => \A k \in 1..Len(page.logs) : Tiles(page.logs[k])

(***************************************************************************)
(* Paging through the logs of the completed trips.                         *)
(***************************************************************************)
WellFormed(raw_date) == raw_date # Some(BadText)

\* the day logs that pass the date filter of query, newest first; dates are
\* compared as dates
PassingLogs ==
    SelectSeq(GetCompletedEldLogsDesc("u1", eld_tz),
              LAMBDA log :
                  /\ query.start_date # None
                        => FromIsoFormat(TheValue(query.start_date)) <= log.date
                  /\ query.end_date # None
                        => log.date <= FromIsoFormat(TheValue(query.end_date)))

DateFilterGiven == WellFormed(query.start_date) /\ WellFormed(query.end_date)

\* the range the view accepts: end_date on or after start_date and at most
\* ELD_MAX_RANGE_DAYS after it, when both are given
RangeAccepted ==
    (query.start_date # None /\ query.end_date # None)
    => LET days == FromIsoFormat(TheValue(query.end_date))
                   - FromIsoFormat(TheValue(query.start_date))
       IN  0 <= days /\ days <= ELD_MAX_RANGE_DAYS

LimitGiven ==
    query.limit = None \/ (query.limit # Some(BadText) /\ ParseInt(TheValue(query.limit)) >= 1)

PagesEnded == page # NoPage /\ ~page.has_more

StrictlyDescending(logs) ==
    \A i \in 1..(Len(logs) - 1) : logs[i].date > logs[i + 1].date

\* what the client has after each page, against the logs that pass the filter
PagesExact ==
    /\ IsPrefix(received, PassingLogs)
    /\ StrictlyDescending(received)
    /\ page # NoPage
          => /\ page.has_more <=> Len(received) < Len(PassingLogs)
             /\ page.has_more <=> page.next_cursor # None
    /\ PagesEnded => received = PassingLogs

\* the requests end: every request but the last hands out at least one more
\* of the logs, so there are never more requests than logs and one
PagesEnd ==
    /\ pages <= Len(GetCompletedEldLogsDesc("u1", eld_tz)) + 1
    /\ (page # NoPage /\ page.has_more) => Len(received) >= pages

\* C28 as stated, for any date filter: the pages return every day log that
\* passes the date filter exactly once in strictly descending date order,
\* has_more is true and next_cursor non-null exactly when logs remain, and the
\* requests end after finitely many pages.
C28_CursorPagination ==
    (DateFilterGiven /\ LimitGiven) => (PagesExact /\ PagesEnd)

\* C28 for the date filters the view accepts (end_date on or after start_date
\* and at most 30 days after it): the pages return every day log that passes
\* the filter exactly once in strictly descending date order, has_more is
\* true and next_cursor non-null exactly when logs remain, and the requests
\* end after finitely many pages.
C28_PaginationOfAcceptedRange ==
    (DateFilterGiven /\ RangeAccepted /\ LimitGiven) => (PagesExact /\ PagesEnd)

\* three pages have been read under a date filter that excludes a day log
C28_Witness ==
    /\ PagesEnded
    /\ page.code = 200
    /\ query.end_date # None
    /\ query.limit = Some(<<1>>)
    /\ pages = 3
    /\ Len(received) = 3
    /\ Len(received) < Len(GetCompletedEldLogsDesc("u1", eld_tz))

\* a range of more than ELD_MAX_RANGE_DAYS days is answered 400 although day
\* logs pass the filter
RangeRejected ==
    /\ page.code = 400
    /\ DateFilterGiven
    /\ PassingLogs # <<>>

(***************************************************************************)
(* The order of the planned stops.                                         *)
(***************************************************************************)
\* the type names in ascending order of their strings
TypeNames == <<"break", "fuel", "rest">>

NameIndex(type) == CHOOSE k \in 1..Len(TypeNames) : TypeNames[k] = type

InOrder(a, b) ==
    \/ a.eta_hours < b.eta_hours
    \/ a.eta_hours = b.eta_hours /\ NameIndex(a.type) <= NameIndex(b.type)

\* C29: the list _estimate_stops returns is sorted by eta_hours ascending and,
\* for equal eta_hours, by type name ascending (break before fuel before
\* rest); for 2500 miles and 40 hours the break at eta 16 comes right before
\* the fuel stop at eta 16.
C29_StopOrdering ==
    stop_pc = "done"
    => /\ \A i \in 1..(Len(stops) - 1) : InOrder(stops[i], stops[i + 1])
       /\ (distance_miles = 2500 /\ driving_duration_hours = 4000)
          => stops = <<Stop("break", 800, 50), Stop("rest", 1100, 1000),
                       Stop("break", 1600, 50), Stop("fuel", 1600, 50),
                       Stop("break", 2400, 50), Stop("break", 3200, 50),
                       Stop("fuel", 3200, 50), Stop("break", 4000, 50)>>

\* the scenario has been run: a break and a fuel stop share eta 16
C29_Witness ==
    /\ stop_pc = "done"
    /\ distance_miles = 2500
    /\ driving_duration_hours = 4000
    /\ \E i \in 1..(Len(stops) - 1) :
          /\ stops[i] = Stop("break", 1600, 50)
          /\ stops[i + 1] = Stop("fuel", 1600, 50)

\* a rest stop and a fuel stop share eta 11: 2000 miles in 22 hours
FuelBeforeRest ==
    /\ stop_pc = "done"
    /\ \E i \in 1..(Len(stops) - 1) :
          /\ stops[i].type = "fuel"
          /\ stops[i + 1].type = "rest"
          /\ stops[i].eta_hours = stops[i + 1].eta_hours

(***************************************************************************)
(* The geocode rate limit.                                                 *)
(***************************************************************************)
\* C30: of the requests of one client IP in one one-second bucket the first 3
\* are admitted and every further one is answered 429, also when requests of
\* the same IP overlap.
C30_GeocodeRateLimit ==
    \A key \in GeoKeys :
        admitted[key] = Min(GEOCODE_LIMIT, admitted[key] + rejected[key])

\* requests handled one at a time: a fourth and a fifth request of a bucket
\* have been answered 429
FourthRequestRejected ==
    \E key \in GeoKeys : admitted[key] = GEOCODE_LIMIT /\ rejected[key] = 2

====
